---- MODULE Spec2Model ----
(***************************************************************************)
(* Circulation and membership lifecycle of the library server.             *)
(*                                                                         *)
(* The request handlers of src/server/db.ts run against the IStorage       *)
(* implementations MemStorage (src/server/storage.ts) and SupabaseStorage  *)
(* (src/unnamed/part_001).  A handler is an async function: every `await`  *)
(* of a storage call is a point where another request can run.  One action *)
(* below is one storage call together with the handler code that follows   *)
(* it up to the next storage call.                                         *)
(*                                                                         *)
(* MemStorage calls complete without I/O, so their awaits resume from the  *)
(* microtask queue and a handler that has started runs to its response     *)
(* before the next request is dispatched.  SupabaseStorage calls are       *)
(* network round trips, so requests interleave at every await.             *)
(***************************************************************************)
EXTENDS Integers, Sequences, FiniteSets, TLC

\* ---------------------------------------------------------------- bounds
MaxCopies == 2
MaxLoans == 2
MaxBooks == 1
MaxRequests == 4
MaxApps == 2
MaxAppRequests == 3
MaxDraws == 2

\* ------------------------------------------------------- program constants
LoanDays == 14
NoDate == -1
CardValidDays == 365

\* ----------------------------------------------------------------- values
Procs == {"r1", "r2"}
Backends == {"mem", "supabase"}

BookIds == 1..MaxBooks
BorrowIds == 1..MaxLoans

\* bookId values a request body can carry: an existing or unknown id, or none (0)
NoBookId == 0
UnknownBookId == MaxBooks + 1
BookIdInputs == BookIds \cup {NoBookId, UnknownBookId}

Title == "title"
NoTitle == ""
TitleInputs == {Title, NoTitle}

\* status strings a PATCH body can carry
StatusInputs == {"borrowed", "returned", "lost"}

ADMIN_EMAIL == "admin@formen.com"

\* A session as cookie-session gives it to a handler.  userId is a sequence
\* of tokens: <<>> is "no userId", <<"card-", a>> is the string `card-${a}`.
NoSession == [userId |-> <<>>, isAdmin |-> FALSE, isLibraryCard |-> FALSE]
UserSession == [userId |-> <<"u1">>, isAdmin |-> FALSE, isLibraryCard |-> FALSE]
AdminSession == [userId |-> <<"adm">>, isAdmin |-> TRUE, isLibraryCard |-> FALSE]
CardSession == [userId |-> <<"card-", "a1">>, isAdmin |-> FALSE, isLibraryCard |-> TRUE]
Sessions == {NoSession, UserSession, AdminSession, CardSession}

VARIABLES
    backend,        \* which IStorage implementation `storage` is
    clock,          \* what new Date() returns
    books,          \* books table / MemStorage.books
    bookBorrows,    \* book_borrows table / MemStorage.bookBorrows
    nextBorrowId,   \* the next fresh loan id
    served,         \* requests accepted so far
    users,          \* users table
    profiles,       \* profiles table, keyed by userId
    applications,   \* library_card_applications table
    students,       \* students table / MemStorage.students, in insertion order
    nextAppId,      \* the number of the next fresh application id
    pc,             \* per request slot: the await the handler is suspended at
    req,            \* per request slot: the handler's locals
    res,            \* the last response sent
    overlapped,     \* in-flight requests another request on the same book ran during
    session,        \* req.session of the browser's cookie
    auth            \* the state of the browser's AuthProvider

storeVars == <<books, bookBorrows, nextBorrowId>>
acctVars == <<users, profiles, applications, students, nextAppId>>
browserVars == <<session, auth>>
vars == <<backend, clock, books, bookBorrows, nextBorrowId, served, users,
          profiles, applications, students, nextAppId, pc, req, res, overlapped,
          session, auth>>

\* ------------------------------------------------------------------ helpers
Max(a, b) == IF a >= b THEN a ELSE b

IdleReq ==
    [op |-> "none", sess |-> NoSession, bookId |-> NoBookId, bookTitle |-> NoTitle,
     id |-> 0, avail |-> 0, name |-> <<>>, phone |-> "", email |-> "",
     due |-> NoDate, found |-> FALSE, status |-> "", card |-> {}]

NoRes == [op |-> "none", status |-> 0, error |-> "", id |-> 0]

\* AuthProvider's useState values: user and profile null, both flags false;
\* call is the function of the provider that is awaiting a response
NoUser == ""
SignedOut ==
    [call |-> "none", user |-> NoUser, profile |-> NoUser, isAdmin |-> FALSE,
     isLibraryCard |-> FALSE]

Response(op, status, error, id) ==
    [op |-> op, status |-> status, error |-> error, id |-> id]

\* A handler whose storage awaits are all MemStorage calls runs to completion
\* before another request is dispatched; with SupabaseStorage requests overlap.
CanStart(p) ==
    /\ pc[p] = "idle"
    /\ backend = "mem" => \A q \in Procs : pc[q] = "idle"

\* A circulation request is accepted while the request budget lasts.
Accept(p) ==
    /\ CanStart(p)
    /\ served < MaxRequests
    /\ served' = served + 1

\* req.session.userId.replace(/^card-/, "")
StripCardPrefix(userId) ==
    IF Len(userId) > 0 /\ Head(userId) = "card-" THEN Tail(userId) ELSE userId

\* ------------------------------------------------------------- overlap
\* The book a loan is of (NoBookId when there is no such loan).
LoanBook(id) == IF id \in DOMAIN bookBorrows THEN bookBorrows[id].bookId ELSE NoBookId

\* The book an in-flight request works on.
ReqBook(q) ==
    IF req[q].bookId # NoBookId THEN req[q].bookId ELSE LoanBook(req[q].id)

OthersOn(q, b) ==
    {r \in Procs \ {q} : pc[r] # "idle" /\ b # NoBookId /\ ReqBook(r) = b}

\* Request q takes a step that works on book b: every other in-flight request
\* on b has been overlapped, and so has q itself when it starts among them.
StepOn(q, b) ==
    overlapped' = {r \in Procs :
                     /\ pc'[r] # "idle"
                     /\ \/ r \in overlapped
                        \/ r \in OthersOn(q, b)
                        \/ r = q /\ pc[q] = "idle" /\ OthersOn(q, b) # {}}

\* ------------------------------------------------------------ storage reads
GetBookFoundAlways(id) == TRUE

\* const book = await storage.getBook(bookId); if (!book) ...
GetBookFound(id) == id \in DOMAIN books

\* (book.availableCopies || 0)
AvailableOrZero(id) == IF id \in DOMAIN books THEN books[id].availableCopies ELSE 0

\* ---------------------------------------------------------- storage writes
\* createBook: totalCopies: Number(book.totalCopies || 1), same for available
CreatedBook(total, available) ==
    [totalCopies |-> IF total = 0 THEN 1 ELSE total,
     availableCopies |-> IF available = 0 THEN 1 ELSE available]

\* updateBook(id, {availableCopies: n}): undefined when the row is missing
UpdateBookCopies(id, n) ==
    IF id \in DOMAIN books
    THEN [books EXCEPT ![id].availableCopies = n]
    ELSE books

\* The InsertBookBorrow the handler passes to createBookBorrow.
BorrowPayload(r) ==
    [userId |-> r.sess.userId, bookId |-> r.bookId, bookTitle |-> r.bookTitle,
     borrowerName |-> r.name, borrowerPhone |-> r.phone, borrowerEmail |-> r.email,
     dueDate |-> r.due]

MemBorrowRowNotBorrowed(payload) ==
    payload @@ [borrowDate |-> clock, returnDate |-> NoDate, status |-> "returned"]

\* MemStorage.createBookBorrow: { ...borrow, id, borrowDate: new Date(),
\* dueDate, returnDate: null, status: "borrowed" }
MemBorrowRow(payload) ==
    payload @@ [borrowDate |-> clock, returnDate |-> NoDate, status |-> "borrowed"]

\* Defaults of the book_borrows columns the insert leaves out: borrow_date
\* default now(), return_date (none, so null), status default 'borrowed'.
BookBorrowsColumnDefaults ==
    [borrowDate |-> clock, returnDate |-> NoDate, status |-> "borrowed"]

\* SupabaseStorage.createBookBorrow: insert(toSnake(borrow)).select().single()
SupabaseBorrowRow(payload) == payload @@ BookBorrowsColumnDefaults

NewBorrow(r) ==
    IF backend = "mem" THEN MemBorrowRow(BorrowPayload(r))
    ELSE SupabaseBorrowRow(BorrowPayload(r))

MemUpdateBookBorrowStatusDropsName(id, status, returnDate) ==
    IF id \in DOMAIN bookBorrows
    THEN [bookBorrows EXCEPT
            ![id].status = status,
            ![id].borrowerName = <<>>,
            ![id].returnDate = IF returnDate # NoDate THEN returnDate ELSE @]
    ELSE bookBorrows

\* MemStorage.updateBookBorrowStatus:
\*   { ...borrow, status, returnDate: returnDate || borrow.returnDate }
MemUpdateBookBorrowStatus(id, status, returnDate) ==
    IF id \in DOMAIN bookBorrows
    THEN [bookBorrows EXCEPT
            ![id].status = status,
            ![id].returnDate = IF returnDate # NoDate THEN returnDate ELSE @]
    ELSE bookBorrows

\* SupabaseStorage.updateBookBorrowStatus:
\*   updates = { status }; if (returnDate) updates.return_date = ...;
\*   update(updates).eq('id', id)
SupabaseUpdateBookBorrowStatus(id, status, returnDate) ==
    [b \in DOMAIN bookBorrows |->
        IF b # id THEN bookBorrows[b]
        ELSE IF returnDate # NoDate
        THEN [bookBorrows[b] EXCEPT !.status = status, !.returnDate = returnDate]
        ELSE [bookBorrows[b] EXCEPT !.status = status]]

UpdatedBorrowStatus(id, status, returnDate) ==
    IF backend = "mem" THEN MemUpdateBookBorrowStatus(id, status, returnDate)
    ELSE SupabaseUpdateBookBorrowStatus(id, status, returnDate)

\* deleteBookBorrow(id)
DeletedBorrow(id) == [b \in DOMAIN bookBorrows \ {id} |-> bookBorrows[b]]

\* ------------------------------------------------------------------- Init
SeedUsers ==
    [u \in {"u1", "adm"} |->
        IF u = "adm"
        THEN [email |-> ADMIN_EMAIL, isAdmin |-> TRUE, password |-> <<"$2b$", "pw">>]
        ELSE [email |-> "e1", isAdmin |-> FALSE, password |-> <<"$2b$", "pw">>]]

SeedProfiles == [u \in {"u1"} |-> [fullName |-> "n1", phone |-> "p1"]]

\* An approved application with a password (the card the CardSession is of).
SeedApplications ==
    [a \in {"a1"} |->
        [userId |-> <<>>, firstName |-> "f1", lastName |-> "l1", phone |-> "p2",
         email |-> "e2", class |-> "Class 11", field |-> "Computer Science",
         rollNo |-> <<"E", "-", "1">>, password |-> <<"$2b$", "pw">>,
         cardNumber |-> <<"CS", "-", "1", "-", "11">>, studentId |-> <<"GCMN-", 1>>,
         issueDate |-> 0, validThrough |-> 365, status |-> "approved"]]

\* The Student the approval of the seeded application provisioned (only
\* SupabaseStorage provisions one).
SeedStudents ==
    <<[userId |-> <<"card-", "a1">>, cardId |-> <<"CS", "-", "1", "-", "11">>,
       name |-> <<"f1", " ", "l1">>, class |-> "Class 11",
       field |-> "Computer Science", rollNo |-> <<"E", "-", "1">>]>>

InitServer ==
    /\ backend \in Backends
    /\ clock = 0
    /\ books = <<>>
    /\ bookBorrows = <<>>
    /\ nextBorrowId = 1
    /\ served = 0
    /\ users = SeedUsers
    /\ profiles = SeedProfiles
    /\ pc = [p \in Procs |-> "idle"]
    /\ req = [p \in Procs |-> IdleReq]
    /\ res = NoRes
    /\ overlapped = {}
    /\ session = NoSession
    /\ auth = SignedOut

Init ==
    /\ InitServer
    /\ applications = SeedApplications
    /\ students = IF backend = "supabase" THEN SeedStudents ELSE <<>>
    /\ nextAppId = 2

\* ------------------------------------------------------------ requireAdmin
\* 401 without a userId, next() with session.isAdmin; otherwise hasRole and
\* getUser are consulted (no seeded user other than the admin passes).
RequireAdmin(sess) ==
    IF sess.userId = <<>> THEN 401
    ELSE IF sess.isAdmin THEN 200
    ELSE IF Len(sess.userId) = 1 /\ sess.userId[1] \in DOMAIN users
            /\ users[sess.userId[1]].isAdmin THEN 200
    ELSE 403

AdminError(code) == IF code = 401 THEN "Not authenticated" ELSE "Admin access required"

\* ------------------------------------------------- POST /api/admin/books
CreateBook(p, sess, totalCopies) ==
    /\ CanStart(p)
    /\ Cardinality(DOMAIN books) < MaxBooks
    /\ LET code == RequireAdmin(sess)
           id == Cardinality(DOMAIN books) + 1
       IN IF code # 200
          THEN /\ res' = Response("createBook", code, AdminError(code), 0)
               /\ UNCHANGED books
          ELSE /\ books' = [b \in DOMAIN books \cup {id} |->
                              IF b = id THEN CreatedBook(totalCopies, totalCopies)
                              ELSE books[b]]
               /\ res' = Response("createBook", 200, "", id)
    /\ UNCHANGED <<backend, browserVars, clock, served, bookBorrows, nextBorrowId, acctVars, pc, req>>
    /\ StepOn(p, IF RequireAdmin(sess) = 200 THEN Cardinality(DOMAIN books) + 1 ELSE NoBookId)

\* ------------------------------------------------- POST /api/book-borrows
\* the guard with < in place of <=
NoCopiesStrict(available) == available < 0

\* (book.availableCopies || 0) <= 0
NoCopiesAvailable(available) == available <= 0

\* the counter written back without the decrement
BorrowCopiesNoDecrement(available) == Max(0, available)

\* availableCopies: Math.max(0, (book.availableCopies || 0) - 1)
BorrowCopies(available) == Max(0, available - 1)

\* dueDate = new Date(); dueDate.setDate(dueDate.getDate() + 14)
DueDate(now) == now + LoanDays

Respond(p, op, status, error, id) ==
    /\ res' = Response(op, status, error, id)
    /\ pc' = [pc EXCEPT ![p] = "idle"]
    /\ req' = [req EXCEPT ![p] = IdleReq]

\* The request is answered without reaching createBookBorrow (decided at
\* dispatch on the server that runs a handler to its response).
CreatesNoLoan(sess, bookId, bookTitle) ==
    \/ sess.userId = <<>>
    \/ bookId = NoBookId
    \/ bookTitle = NoTitle
    \/ ~GetBookFound(bookId)
    \/ NoCopiesAvailable(AvailableOrZero(bookId))

InFlightBorrows == Cardinality({q \in Procs : req[q].op = "borrow" /\ req[q].id = 0})

BorrowStart(p, sess, bookId, bookTitle) ==
    /\ Accept(p)
    /\ \/ nextBorrowId + InFlightBorrows <= MaxLoans
       \/ backend = "mem" /\ CreatesNoLoan(sess, bookId, bookTitle)
    /\ IF sess.userId = <<>>
       THEN /\ res' = Response("borrow", 401, "Not authenticated", 0)
            /\ UNCHANGED <<pc, req>>
       ELSE IF bookId = NoBookId \/ bookTitle = NoTitle
       THEN /\ res' = Response("borrow", 400, "Missing required fields", 0)
            /\ UNCHANGED <<pc, req>>
       ELSE /\ pc' = [pc EXCEPT ![p] = "b_getBook"]
            /\ req' = [req EXCEPT ![p] = [IdleReq EXCEPT !.op = "borrow", !.sess = sess,
                                            !.bookId = bookId, !.bookTitle = bookTitle]]
            /\ UNCHANGED res
    /\ UNCHANGED <<backend, browserVars, clock, storeVars, acctVars>>
    /\ StepOn(p, IF pc'[p] # "idle" THEN bookId ELSE NoBookId)

\* const book = await storage.getBook(bookId), then the two guards
BorrowGetBook(p) ==
    /\ pc[p] = "b_getBook"
    /\ LET id == req[p].bookId
       IN IF ~GetBookFound(id)
          THEN Respond(p, "borrow", 404, "Book not found", 0)
          ELSE IF NoCopiesAvailable(AvailableOrZero(id))
          THEN Respond(p, "borrow", 400, "No copies available for borrowing", 0)
          ELSE /\ pc' = [pc EXCEPT ![p] =
                            IF req[p].sess.isLibraryCard THEN "b_getCard" ELSE "b_getUser"]
               /\ req' = [req EXCEPT ![p].found = TRUE, ![p].avail = AvailableOrZero(id)]
               /\ UNCHANGED res
    /\ UNCHANGED <<backend, browserVars, clock, served, storeVars, acctVars>>
    /\ StepOn(p, ReqBook(p))

\* const card = await storage.getLibraryCardApplication(cardId)
BorrowGetCard(p) ==
    /\ pc[p] = "b_getCard"
    /\ LET cardId == StripCardPrefix(req[p].sess.userId)
           known == Len(cardId) = 1 /\ cardId[1] \in DOMAIN applications
       IN req' = [req EXCEPT
                    ![p].name = IF known THEN <<applications[cardId[1]].firstName,
                                               applications[cardId[1]].lastName>>
                                ELSE <<>>,
                    ![p].phone = IF known THEN applications[cardId[1]].phone ELSE "",
                    ![p].email = IF known THEN applications[cardId[1]].email ELSE "",
                    ![p].due = DueDate(clock)]
    /\ pc' = [pc EXCEPT ![p] = "b_create"]
    /\ UNCHANGED <<backend, browserVars, clock, served, storeVars, acctVars, res>>
    /\ StepOn(p, ReqBook(p))

\* const user = await storage.getUser(req.session.userId)
BorrowGetUser(p) ==
    /\ pc[p] = "b_getUser"
    /\ LET uid == req[p].sess.userId
           known == Len(uid) = 1 /\ uid[1] \in DOMAIN users
       IN IF known
          THEN /\ pc' = [pc EXCEPT ![p] = "b_getProfile"]
               /\ UNCHANGED req
          ELSE /\ pc' = [pc EXCEPT ![p] = "b_create"]
               /\ req' = [req EXCEPT ![p].due = DueDate(clock)]
    /\ UNCHANGED <<backend, browserVars, clock, served, storeVars, acctVars, res>>
    /\ StepOn(p, ReqBook(p))

\* const profile = await storage.getProfile(user.id)
BorrowGetProfile(p) ==
    /\ pc[p] = "b_getProfile"
    /\ LET uid == req[p].sess.userId[1]
           user == users[uid]
           hasProfile == uid \in DOMAIN profiles
       IN req' = [req EXCEPT
                    ![p].name = IF hasProfile /\ profiles[uid].fullName # ""
                                THEN <<profiles[uid].fullName>>
                                ELSE IF user.isAdmin THEN <<"System Admin">>
                                ELSE <<user.email>>,
                    ![p].phone = IF hasProfile THEN profiles[uid].phone ELSE "",
                    ![p].email = IF user.email # "" THEN user.email
                                 ELSE IF user.isAdmin THEN ADMIN_EMAIL ELSE "",
                    ![p].due = DueDate(clock)]
    /\ pc' = [pc EXCEPT ![p] = "b_create"]
    /\ UNCHANGED <<backend, browserVars, clock, served, storeVars, acctVars, res>>
    /\ StepOn(p, ReqBook(p))

\* const borrow = await storage.createBookBorrow({...})
BorrowCreate(p) ==
    /\ pc[p] = "b_create"
    /\ bookBorrows' = [b \in DOMAIN bookBorrows \cup {nextBorrowId} |->
                         IF b = nextBorrowId THEN NewBorrow(req[p]) ELSE bookBorrows[b]]
    /\ nextBorrowId' = nextBorrowId + 1
    /\ req' = [req EXCEPT ![p].id = nextBorrowId]
    /\ pc' = [pc EXCEPT ![p] = "b_updateBook"]
    /\ UNCHANGED <<backend, browserVars, clock, served, books, acctVars, res>>
    /\ StepOn(p, ReqBook(p))

\* await storage.updateBook(bookId, {availableCopies: ...}); res.json(borrow)
BorrowUpdateBook(p) ==
    /\ pc[p] = "b_updateBook"
    /\ books' = UpdateBookCopies(req[p].bookId, BorrowCopies(req[p].avail))
    /\ Respond(p, "borrow", 200, "", req[p].id)
    /\ UNCHANGED <<backend, browserVars, clock, served, bookBorrows, nextBorrowId, acctVars>>
    /\ StepOn(p, ReqBook(p))

\* ------------------------------------ PATCH /api/book-borrows/:id/return
\* the borrow handler's decrement pasted into the return handler
ReturnCopiesDecrement(available) == available - 1

\* availableCopies: (book.availableCopies || 0) + 1
ReturnCopies(available) == available + 1

\* the comparison with the status misspelt
AlreadyReturnedMisspelt(status) == status = "Returned"

\* borrow.status === "returned"
AlreadyReturned(status) == status = "returned"

ReturnStart(p, sess, id) ==
    /\ Accept(p)
    /\ LET code == RequireAdmin(sess)
       IN IF code # 200
          THEN /\ res' = Response("return", code, AdminError(code), 0)
               /\ UNCHANGED <<pc, req>>
          ELSE /\ pc' = [pc EXCEPT ![p] = "r_getBorrows"]
               /\ req' = [req EXCEPT ![p] = [IdleReq EXCEPT !.op = "return", !.sess = sess,
                                               !.id = id]]
               /\ UNCHANGED res
    /\ UNCHANGED <<backend, browserVars, clock, storeVars, acctVars>>
    /\ StepOn(p, IF RequireAdmin(sess) = 200 THEN LoanBook(id) ELSE NoBookId)

\* const borrows = await storage.getBookBorrows(); find; the two guards;
\* then updateBookBorrowStatus(id, "returned", new Date()) is issued
ReturnGetBorrows(p) ==
    /\ pc[p] = "r_getBorrows"
    /\ LET id == req[p].id
       IN IF id \notin DOMAIN bookBorrows
          THEN Respond(p, "return", 404, "Borrow record not found", 0)
          ELSE IF AlreadyReturned(bookBorrows[id].status)
          THEN Respond(p, "return", 400, "Book already returned", id)
          ELSE /\ pc' = [pc EXCEPT ![p] = "r_updateStatus"]
               /\ req' = [req EXCEPT ![p].bookId = bookBorrows[id].bookId,
                                     ![p].due = clock]
               /\ UNCHANGED res
    /\ UNCHANGED <<backend, browserVars, clock, served, storeVars, acctVars>>
    /\ StepOn(p, ReqBook(p))

\* const updatedBorrow = await storage.updateBookBorrowStatus(...)
ReturnUpdateStatus(p) ==
    /\ pc[p] = "r_updateStatus"
    /\ bookBorrows' = UpdatedBorrowStatus(req[p].id, "returned", req[p].due)
    /\ req' = [req EXCEPT ![p].found = req[p].id \in DOMAIN bookBorrows]
    /\ pc' = [pc EXCEPT ![p] = "r_getBook"]
    /\ UNCHANGED <<backend, browserVars, clock, served, books, nextBorrowId, acctVars, res>>
    /\ StepOn(p, ReqBook(p))

\* json body of the return response: updatedBorrow, or nothing when undefined
ReturnBody(r) == IF r.found THEN r.id ELSE 0

\* const book = await storage.getBook(borrow.bookId); if (book) {...}
ReturnGetBook(p) ==
    /\ pc[p] = "r_getBook"
    /\ IF GetBookFound(req[p].bookId)
       THEN /\ pc' = [pc EXCEPT ![p] = "r_updateBook"]
            /\ req' = [req EXCEPT ![p].avail = AvailableOrZero(req[p].bookId)]
            /\ UNCHANGED res
       ELSE Respond(p, "return", 200, "", ReturnBody(req[p]))
    /\ UNCHANGED <<backend, browserVars, clock, served, storeVars, acctVars>>
    /\ StepOn(p, ReqBook(p))

\* await storage.updateBook(borrow.bookId, {...}); res.json(updatedBorrow)
ReturnUpdateBook(p) ==
    /\ pc[p] = "r_updateBook"
    /\ books' = UpdateBookCopies(req[p].bookId, ReturnCopies(req[p].avail))
    /\ Respond(p, "return", 200, "", ReturnBody(req[p]))
    /\ UNCHANGED <<backend, browserVars, clock, served, bookBorrows, nextBorrowId, acctVars>>
    /\ StepOn(p, ReqBook(p))

\* ------------------------------------ PATCH /api/book-borrows/:id/status
\* dates a PATCH body can carry in returnDate (NoDate: the field is absent)
DateInputs == {NoDate, 7}

SetBorrowStatus(p, sess, id, status, returnDate) ==
    /\ Accept(p)
    /\ LET code == RequireAdmin(sess)
       IN IF code # 200
          THEN /\ res' = Response("setStatus", code, AdminError(code), 0)
               /\ UNCHANGED bookBorrows
          ELSE /\ bookBorrows' = UpdatedBorrowStatus(id, status, returnDate)
               /\ res' = Response("setStatus", 200, "",
                                   IF id \in DOMAIN bookBorrows THEN id ELSE 0)
    /\ UNCHANGED <<backend, browserVars, clock, books, nextBorrowId, acctVars, pc, req>>
    /\ StepOn(p, IF RequireAdmin(sess) = 200 THEN LoanBook(id) ELSE NoBookId)

\* -------- DELETE /api/book-borrows/:id, DELETE /api/admin/borrowed-books/:id
DeleteBookBorrowRestoresCopy(p, sess, id) ==
    /\ Accept(p)
    /\ LET code == RequireAdmin(sess)
           b == LoanBook(id)
       IN IF code # 200
          THEN /\ res' = Response("deleteBorrow", code, AdminError(code), 0)
               /\ UNCHANGED <<books, bookBorrows>>
          ELSE /\ bookBorrows' = DeletedBorrow(id)
               /\ books' = IF b \in DOMAIN books
                           THEN [books EXCEPT ![b].availableCopies = @ + 1]
                           ELSE books
               /\ res' = Response("deleteBorrow", 200, "", id)
    /\ UNCHANGED <<backend, browserVars, clock, nextBorrowId, acctVars, pc, req>>
    /\ StepOn(p, IF RequireAdmin(sess) = 200 THEN LoanBook(id) ELSE NoBookId)

DeleteBookBorrow(p, sess, id) ==
    /\ Accept(p)
    /\ LET code == RequireAdmin(sess)
       IN IF code # 200
          THEN /\ res' = Response("deleteBorrow", code, AdminError(code), 0)
               /\ UNCHANGED bookBorrows
          ELSE /\ bookBorrows' = DeletedBorrow(id)
               /\ res' = Response("deleteBorrow", 200, "", id)
    /\ UNCHANGED <<backend, browserVars, clock, books, nextBorrowId, acctVars, pc, req>>
    /\ StepOn(p, IF RequireAdmin(sess) = 200 THEN LoanBook(id) ELSE NoBookId)

\* ------------------------------------------------------------------- Next
Next ==
    \/ \E p \in Procs, s \in Sessions, n \in 0..MaxCopies : CreateBook(p, s, n)
    \/ \E p \in Procs, s \in Sessions, b \in BookIdInputs, t \in TitleInputs :
            BorrowStart(p, s, b, t)
    \/ \E p \in Procs : BorrowGetBook(p)
    \/ \E p \in Procs : BorrowGetCard(p)
    \/ \E p \in Procs : BorrowGetUser(p)
    \/ \E p \in Procs : BorrowGetProfile(p)
    \/ \E p \in Procs : BorrowCreate(p)
    \/ \E p \in Procs : BorrowUpdateBook(p)
    \/ \E p \in Procs, s \in Sessions, id \in BorrowIds : ReturnStart(p, s, id)
    \/ \E p \in Procs : ReturnGetBorrows(p)
    \/ \E p \in Procs : ReturnUpdateStatus(p)
    \/ \E p \in Procs : ReturnGetBook(p)
    \/ \E p \in Procs : ReturnUpdateBook(p)
    \/ \E p \in Procs, s \in Sessions, id \in BorrowIds, st \in StatusInputs,
          d \in DateInputs : SetBorrowStatus(p, s, id, st, d)
    \/ \E p \in Procs, s \in Sessions, id \in BorrowIds : DeleteBookBorrow(p, s, id)

Spec == Init /\ [][Next]_vars

\* Requests served one after the other (the MemStorage server).
InitSerial == Init /\ backend = "mem"
SerialSpec == InitSerial /\ [][Next]_vars

\* Borrow and return requests only, served one after the other.
BorrowReturnNext ==
    \/ \E p \in Procs, s \in Sessions, n \in 0..MaxCopies : CreateBook(p, s, n)
    \/ \E p \in Procs, s \in Sessions, b \in BookIdInputs, t \in TitleInputs :
            BorrowStart(p, s, b, t)
    \/ \E p \in Procs : BorrowGetBook(p)
    \/ \E p \in Procs : BorrowGetCard(p)
    \/ \E p \in Procs : BorrowGetUser(p)
    \/ \E p \in Procs : BorrowGetProfile(p)
    \/ \E p \in Procs : BorrowCreate(p)
    \/ \E p \in Procs : BorrowUpdateBook(p)
    \/ \E p \in Procs, s \in Sessions, id \in BorrowIds : ReturnStart(p, s, id)
    \/ \E p \in Procs : ReturnGetBorrows(p)
    \/ \E p \in Procs : ReturnUpdateStatus(p)
    \/ \E p \in Procs : ReturnGetBook(p)
    \/ \E p \in Procs : ReturnUpdateBook(p)

BorrowReturnSpec == InitSerial /\ [][BorrowReturnNext]_vars

\* ------------------------------------------------------- the clock advances
\* new Date() in the handler and new Date() / now() in the storage read the
\* wall clock at different moments.  The clock counts in its own resolution
\* and LoanDays is the loan period in that unit.
MaxTicks == 2

Tick ==
    /\ clock < MaxTicks
    /\ clock' = clock + 1
    /\ UNCHANGED <<backend, browserVars, books, bookBorrows, nextBorrowId, served, acctVars,
                   pc, req, res, overlapped>>

ClockNext ==
    \/ \E p \in Procs, n \in 1..MaxCopies : CreateBook(p, AdminSession, n)
    \/ \E p \in Procs, s \in {CardSession, UserSession}, b \in BookIds :
            BorrowStart(p, s, b, Title)
    \/ \E p \in Procs : BorrowGetBook(p)
    \/ \E p \in Procs : BorrowGetCard(p)
    \/ \E p \in Procs : BorrowGetUser(p)
    \/ \E p \in Procs : BorrowGetProfile(p)
    \/ \E p \in Procs : BorrowCreate(p)
    \/ \E p \in Procs : BorrowUpdateBook(p)
    \/ Tick

ClockSpec == Init /\ [][ClockNext]_vars

\* ----------------------------------------------------- repository failures
\* SupabaseStorage.updateBook: `if (error) return undefined` - the update is
\* not applied and the borrow handler, which ignores the result, goes on to
\* res.json(borrow).
BorrowUpdateBookFails(p) ==
    /\ pc[p] = "b_updateBook"
    /\ backend = "supabase"
    /\ Respond(p, "borrow", 200, "", req[p].id)
    /\ UNCHANGED <<backend, browserVars, clock, served, storeVars, acctVars>>
    /\ StepOn(p, ReqBook(p))

\* SupabaseStorage.getBook: `if (error) return undefined` - the borrow handler
\* takes the failed read for a missing book.
BorrowGetBookFails(p) ==
    /\ pc[p] = "b_getBook"
    /\ backend = "supabase"
    /\ Respond(p, "borrow", 404, "Book not found", 0)
    /\ UNCHANGED <<backend, browserVars, clock, served, storeVars, acctVars>>
    /\ StepOn(p, ReqBook(p))

FaultNext ==
    \/ Next
    \/ \E p \in Procs : BorrowUpdateBookFails(p)
    \/ \E p \in Procs : BorrowGetBookFails(p)

FaultSpec == Init /\ [][FaultNext]_vars

\* ============================================= library card applications
AppIdNames == <<"a1", "a2", "a3", "a4">>
AppId(n) == AppIdNames[n]
AppNumbers == 1..MaxApps
\* :id parameters: the ids that can exist and one that never does
AppInputs == 1..(MaxApps + 1)

\* An application or card-login request is accepted while their budget lasts.
AcceptApp(p) ==
    /\ CanStart(p)
    /\ served < MaxAppRequests
    /\ served' = served + 1

\* a body without a status key
NoStatus == ""
AppStatusInputs == {"approved", "rejected", "Approved", "suspended", NoStatus}

Letters ==
    {"A", "B", "C", "D", "E", "F", "G", "H", "I", "J", "K", "L", "M", "N", "O",
     "P", "Q", "R", "S", "T", "U", "V", "W", "X", "Y", "Z",
     "a", "b", "c", "d", "e", "f", "g", "h", "i", "j", "k", "l", "m", "n", "o",
     "p", "q", "r", "s", "t", "u", "v", "w", "x", "y", "z"}

\* bodies that lack a required field: the first name, the roll number
IncompleteBodies ==
    {[lastName |-> "l1", phone |-> "p2", email |-> "e2",
      class |-> "Class 12", field |-> "Commerce", rollNo |-> <<"9">>],
     [firstName |-> "f1", lastName |-> "l1", phone |-> "p2", email |-> "e2",
      class |-> "Class 11", field |-> "Computer Science"]}

\* req.body of POST /api/library-card-applications: a form with a password,
\* one without that generates the same card number, and one that also carries
\* keys the server is to set
Bodies ==
    {[firstName |-> "f1", lastName |-> "l1", phone |-> "p2", email |-> "e2",
      class |-> "Class 11", field |-> "Computer Science", rollNo |-> <<"E", "-", "1">>,
      password |-> "pw"],
     [firstName |-> "f1", lastName |-> "l1", phone |-> "p2", email |-> "e2",
      class |-> "Class 11", field |-> "Computer Science", rollNo |-> <<"1">>],
     [firstName |-> "f1", lastName |-> "l1", phone |-> "p2", email |-> "e2",
      class |-> "Evening", field |-> "", rollNo |-> <<"7">>, password |-> "pw",
      userId |-> <<"adm">>, status |-> "approved",
      cardNumber |-> <<"CS", "-", "0", "-", "11">>, studentId |-> <<"GCMN-", 0>>]}
    \cup IncompleteBodies

\* bcrypt.hash(password, 10) and bcrypt.compare(password, hash)
BcryptHash(password) == <<"$2b$", password>>

BcryptCompareAny(password, hash) == TRUE

BcryptCompare(password, hash) == hash = BcryptHash(password)

\* fieldCodes[field] || 'XX' (an absent field gives 'XX' too)
FieldCode(field) ==
    CASE field = "Computer Science" -> "CS"
      [] field = "Pre-Medical" -> "PM"
      [] field = "Pre-Engineering" -> "PE"
      [] field = "Humanities" -> "HU"
      [] field = "Commerce" -> "CO"
      [] OTHER -> "XX"

\* classCodes[studentClass] || 'XX'
ClassCode(studentClass) ==
    CASE studentClass = "Class 11" -> "11"
      [] studentClass = "Class 12" -> "12"
      [] studentClass = "ADS I" -> "AI"
      [] studentClass = "ADS II" -> "AII"
      [] studentClass = "BSc Part 1" -> "BI"
      [] studentClass = "BSc Part 2" -> "BII"
      [] OTHER -> "XX"

CleanRollNoKeepsPrefix(rollNo) == rollNo

\* rollNo.replace(/^[A-Za-z]-?/, '')
CleanRollNo(rollNo) ==
    IF Len(rollNo) > 0 /\ rollNo[1] \in Letters
    THEN IF Len(rollNo) > 1 /\ rollNo[2] = "-"
         THEN SubSeq(rollNo, 3, Len(rollNo))
         ELSE Tail(rollNo)
    ELSE rollNo

\* `${fieldCode}-${cleanRollNo}-${classCode}`
GenerateCardNumber(field, rollNo, studentClass) ==
    <<FieldCode(field), "-">> \o CleanRollNo(rollNo) \o <<"-", ClassCode(studentClass)>>

\* `GCMN-${Math.floor(Math.random() * 1000000)...}`: n is the number drawn
GenerateStudentId(n) == <<"GCMN-", n>>

\* validThroughDate.setFullYear(getFullYear() + 1)
ValidThrough(now) == now + CardValidDays

\* const { password, ...rest } = req.body
BodyPassword(body) == IF "password" \in DOMAIN body THEN body.password ELSE ""
BodyRest(body) == [k \in DOMAIN body \ {"password"} |-> body[k]]

\* { userId: req.session?.userId || null, ...rest,
\*   password: password ? await bcrypt.hash(password, 10) : null }
ApplicationPayload(sess, body) ==
    [password |-> IF BodyPassword(body) # "" THEN BcryptHash(BodyPassword(body)) ELSE <<>>]
        @@ BodyRest(body) @@ [userId |-> sess.userId]

\* the fields createLibraryCardApplication computes
GeneratedFields(application, n) ==
    [cardNumber |-> GenerateCardNumber(application.field, application.rollNo,
                                       application.class),
     studentId |-> GenerateStudentId(n),
     issueDate |-> clock,
     validThrough |-> ValidThrough(clock),
     status |-> "pending"]

MemAppRowInputWins(application, n) == application @@ GeneratedFields(application, n)

\* MemStorage.createLibraryCardApplication: { ...application, id, cardNumber,
\* studentId, issueDate, validThrough, status: "pending", createdAt, updatedAt }
MemAppRow(application, n) == GeneratedFields(application, n) @@ application

\* SupabaseStorage.createLibraryCardApplication: { ...toSnake(application),
\* card_number, student_id, issue_date, valid_through, status: "pending" }
SupabaseAppRow(application, n) == GeneratedFields(application, n) @@ application

NewApplication(application, n) ==
    IF backend = "mem" THEN MemAppRow(application, n) ELSE SupabaseAppRow(application, n)

\* ------------------------------------ POST /api/library-card-applications
\* What createLibraryCardApplication throws ("" when it does not): rollNo.replace
\* of an undefined rollNo is a TypeError; the library_card_applications table
\* has first_name and last_name not null, MemStorage checks nothing.
SubmitError(body) ==
    IF "rollNo" \notin DOMAIN body
    THEN "Cannot read properties of undefined (reading 'replace')"
    ELSE IF backend = "supabase" /\ ~({"firstName", "lastName"} \subseteq DOMAIN body)
    THEN "null value in column violates not-null constraint"
    ELSE ""

\* the handler has no check of its own; catch (error) answers 400
Submit(p, sess, body, n) ==
    /\ AcceptApp(p)
    /\ nextAppId <= MaxApps
    /\ IF SubmitError(body) # ""
       THEN /\ res' = Response("submit", 400, SubmitError(body), 0)
            /\ UNCHANGED <<applications, nextAppId>>
       ELSE /\ applications' =
                  [a \in DOMAIN applications \cup {AppId(nextAppId)} |->
                      IF a = AppId(nextAppId)
                      THEN NewApplication(ApplicationPayload(sess, body), n)
                      ELSE applications[a]]
            /\ nextAppId' = nextAppId + 1
            /\ res' = Response("submit", 200, "", nextAppId)
    /\ UNCHANGED <<backend, browserVars, clock, storeVars, users, profiles, students, pc, req,
                   overlapped>>

\* -------------------------- PATCH /api/library-card-applications/:id/status
MemUpdateStatusResetsCard(id, status) ==
    IF id \in DOMAIN applications
    THEN [applications EXCEPT ![id].status = status, ![id].cardNumber = <<>>]
    ELSE applications

\* MemStorage.updateLibraryCardApplicationStatus:
\*   if (!app) return undefined; { ...app, status, updatedAt }
MemUpdateLibraryCardApplicationStatus(id, status) ==
    IF id \in DOMAIN applications
    THEN [applications EXCEPT ![id].status = status]
    ELSE applications

\* SupabaseStorage.updateLibraryCardApplicationStatus, the update:
\*   update({ status, updated_at }).eq('id', id).select().single()
\* (an undefined status is left out of the request body, so only updated_at is
\* written)
SupabaseUpdateLibraryCardApplicationStatus(id, status) ==
    [a \in DOMAIN applications |->
        IF a = id /\ status # NoStatus
        THEN [applications[a] EXCEPT !.status = status]
        ELSE applications[a]]

UpdatedApplicationStatus(id, status) ==
    IF backend = "mem" THEN MemUpdateLibraryCardApplicationStatus(id, status)
    ELSE SupabaseUpdateLibraryCardApplicationStatus(id, status)

StudentOfCardPrefixed(id, card) ==
    [userId |-> <<"card-", id>>,
     cardId |-> card.cardNumber,
     name |-> <<card.firstName, " ", card.lastName>>,
     class |-> card.class,
     field |-> card.field,
     rollNo |-> card.rollNo]

\* createStudent({ userId: card.userId || `card-${card.id}`, cardId:
\*   card.cardNumber, name: `${card.firstName} ${card.lastName}`, class, field,
\*   rollNo })
StudentOf(id, card) ==
    [userId |-> IF card.userId # <<>> THEN card.userId ELSE <<"card-", id>>,
     cardId |-> card.cardNumber,
     name |-> <<card.firstName, " ", card.lastName>>,
     class |-> card.class,
     field |-> card.field,
     rollNo |-> card.rollNo]

CountStudentsNeverZero(cardNumber) == 1

\* select('*', { count: 'exact', head: true }).eq('card_id', cardNumber)
CountStudents(cardNumber) ==
    Cardinality({i \in 1..Len(students) : students[i].cardId = cardNumber})

\* requireAdmin, then the handler calls the storage
AppStatusStart(p, sess, n, status) ==
    /\ AcceptApp(p)
    /\ LET code == RequireAdmin(sess)
       IN IF code # 200
          THEN /\ res' = Response("setAppStatus", code, AdminError(code), 0)
               /\ UNCHANGED <<pc, req>>
          ELSE /\ pc' = [pc EXCEPT ![p] = "a_update"]
               /\ req' = [req EXCEPT ![p] = [IdleReq EXCEPT !.op = "setAppStatus",
                                               !.sess = sess, !.id = n,
                                               !.status = status]]
               /\ UNCHANGED res
    /\ UNCHANGED <<backend, browserVars, clock, storeVars, acctVars, overlapped>>

ProvisionsStudentAlways(status) == TRUE

\* if (data && status === 'approved')
ProvisionsStudent(status) == status = "approved"

\* the status write; SupabaseStorage goes on to the student check when the
\* row exists, the new status is 'approved' and the row has a card number
AppUpdateStatus(p) ==
    /\ pc[p] = "a_update"
    /\ LET id == AppId(req[p].id)
           found == id \in DOMAIN applications
       IN /\ applications' = UpdatedApplicationStatus(id, req[p].status)
          /\ IF backend = "supabase" /\ found /\ ProvisionsStudent(req[p].status)
                /\ applications[id].cardNumber # <<>>
             THEN /\ pc' = [pc EXCEPT ![p] = "a_count"]
                  /\ req' = [req EXCEPT ![p].card = {applications'[id]}]
                  /\ UNCHANGED res
             ELSE Respond(p, "setAppStatus", 200, "", IF found THEN req[p].id ELSE 0)
    /\ UNCHANGED <<backend, browserVars, clock, served, storeVars, users, profiles, students,
                   nextAppId, overlapped>>

\* const { count } = await supabase.from('students')...; if (count === 0)
AppCountStudents(p) ==
    /\ pc[p] = "a_count"
    /\ LET card == CHOOSE c \in req[p].card : TRUE
       IN IF CountStudents(card.cardNumber) = 0
          THEN /\ pc' = [pc EXCEPT ![p] = "a_insert"]
               /\ UNCHANGED <<req, res>>
          ELSE Respond(p, "setAppStatus", 200, "", req[p].id)
    /\ UNCHANGED <<backend, browserVars, clock, served, storeVars, acctVars, overlapped>>

\* await this.createStudent({...}); return toCamel(data)
AppCreateStudent(p) ==
    /\ pc[p] = "a_insert"
    /\ LET card == CHOOSE c \in req[p].card : TRUE
       IN students' = Append(students, StudentOf(AppId(req[p].id), card))
    /\ Respond(p, "setAppStatus", 200, "", req[p].id)
    /\ UNCHANGED <<backend, browserVars, clock, served, storeVars, users, profiles, applications,
                   nextAppId, overlapped>>

\* --------------------------------- POST /api/auth/login with libraryCardId
CardIdInputs ==
    {<<"CS", "-", "1", "-", "11">>, <<"cs", "-", "1", "-", "11">>,
     <<"XX", "-", "7", "-", "XX">>}
SecretInputs == {"", "pw", "bad"}

\* the case folding of ILIKE on the parts card numbers are made of
LowerPart(part) ==
    CASE part = "CS" -> "cs" [] part = "PM" -> "pm" [] part = "PE" -> "pe"
      [] part = "HU" -> "hu" [] part = "CO" -> "co" [] part = "XX" -> "xx"
      [] part = "AI" -> "ai" [] part = "AII" -> "aii" [] part = "BI" -> "bi"
      [] part = "BII" -> "bii" [] OTHER -> part
Lower(str) == [i \in 1..Len(str) |-> LowerPart(str[i])]

\* MemStorage.getLibraryCardByCardNumber: values().find(a => a.cardNumber ===
\* cardNumber), the first in insertion order
MemCardByCardNumber(cardNumber) ==
    LET hits == {n \in 1..(nextAppId - 1) :
                    /\ AppId(n) \in DOMAIN applications
                    /\ applications[AppId(n)].cardNumber = cardNumber}
    IN IF hits = {} THEN {} ELSE {CHOOSE n \in hits : \A m \in hits : n <= m}

\* SupabaseStorage.getLibraryCardByCardNumber: .ilike('card_number',
\* cardNumber).single(); if (error) return undefined (no row, or several)
SupabaseCardByCardNumber(cardNumber) ==
    LET hits == {n \in 1..(nextAppId - 1) :
                    /\ AppId(n) \in DOMAIN applications
                    /\ Lower(applications[AppId(n)].cardNumber) = Lower(cardNumber)}
    IN IF Cardinality(hits) = 1 THEN hits ELSE {}

GetLibraryCardByCardNumber(cardNumber) ==
    IF backend = "mem" THEN MemCardByCardNumber(cardNumber)
    ELSE SupabaseCardByCardNumber(cardNumber)

\* cardApp.status?.toLowerCase() || "pending"
LoginStatus(status) ==
    IF status = "" THEN "pending"
    ELSE IF status = "Approved" THEN "approved"
    ELSE status

CardLoginAnswerStatusFirst(libraryCardId, password) ==
    LET hits == GetLibraryCardByCardNumber(libraryCardId)
        n == CHOOSE h \in hits : TRUE
        cardApp == applications[AppId(n)]
    IN IF password = ""
       THEN <<401, "Password is required for library card login", 0>>
       ELSE IF hits = {}
       THEN <<401, "Write correct details", 0>>
       ELSE IF LoginStatus(cardApp.status) = "pending"
       THEN <<401, "Wait for approval by library", 0>>
       ELSE IF LoginStatus(cardApp.status) = "rejected"
       THEN <<401, "Your library card application was rejected.", 0>>
       ELSE IF LoginStatus(cardApp.status) # "approved"
       THEN <<401, "Library card is not active.", 0>>
       ELSE IF cardApp.password = <<>>
       THEN <<401, "No password set. Please contact library.", 0>>
       ELSE IF ~BcryptCompare(password, cardApp.password)
       THEN <<401, "Write correct details", 0>>
       ELSE <<200, "", n>>

\* the answer of the library-card branch: <<status code, error, application>>
CardLoginAnswer(libraryCardId, password) ==
    LET hits == GetLibraryCardByCardNumber(libraryCardId)
        n == CHOOSE h \in hits : TRUE
        cardApp == applications[AppId(n)]
    IN IF password = ""
       THEN <<401, "Password is required for library card login", 0>>
       ELSE IF hits = {}
       THEN <<401, "Write correct details", 0>>
       ELSE IF cardApp.password = <<>>
       THEN <<401, "No password set. Please contact library.", 0>>
       ELSE IF ~BcryptCompare(password, cardApp.password)
       THEN <<401, "Write correct details", 0>>
       ELSE IF LoginStatus(cardApp.status) = "pending"
       THEN <<401, "Wait for approval by library", 0>>
       ELSE IF LoginStatus(cardApp.status) = "rejected"
       THEN <<401, "Your library card application was rejected.", 0>>
       ELSE IF LoginStatus(cardApp.status) # "approved"
       THEN <<401, "Library card is not active.", 0>>
       ELSE <<200, "", n>>

\* req.session.userId = `card-${cardApp.id}`; req.session.isAdmin = false;
\* req.session.isLibraryCard = true
CardLoginSession(n) ==
    [session EXCEPT !.userId = <<"card-", AppId(n)>>, !.isAdmin = FALSE,
                    !.isLibraryCard = TRUE]

CardLogin(p, libraryCardId, password) ==
    /\ AcceptApp(p)
    /\ LET answer == CardLoginAnswer(libraryCardId, password)
       IN /\ res' = Response("cardLogin", answer[1], answer[2], answer[3])
          /\ session' = IF answer[1] = 200 THEN CardLoginSession(answer[3]) ELSE session
    /\ UNCHANGED <<backend, auth, clock, storeVars, acctVars, pc, req, overlapped>>

AppNext ==
    \/ \E p \in Procs, s \in {NoSession, UserSession}, b \in Bodies, n \in 1..MaxDraws :
            Submit(p, s, b, n)
    \/ \E p \in Procs, s \in Sessions, n \in AppInputs, st \in AppStatusInputs :
            AppStatusStart(p, s, n, st)
    \/ \E p \in Procs : AppUpdateStatus(p)
    \/ \E p \in Procs : AppCountStudents(p)
    \/ \E p \in Procs : AppCreateStudent(p)
    \/ \E p \in Procs, c \in CardIdInputs, s \in SecretInputs : CardLogin(p, c, s)

\* A server with no application yet.
InitApp ==
    /\ InitServer
    /\ applications = <<>>
    /\ students = <<>>
    /\ nextAppId = 1

AppSpec == InitApp /\ [][AppNext]_vars

\* --------------------------------------------- card numbers of many forms
GenFields ==
    {"Computer Science", "Pre-Medical", "Pre-Engineering", "Humanities", "Commerce",
     "", "Biology"}
GenClasses ==
    {"Class 11", "Class 12", "ADS I", "ADS II", "BSc Part 1", "BSc Part 2",
     "Unknown Track"}
GenRollNos == {<<"b", "7">>, <<"-", "5">>, <<"A", "B", "-", "1">>}

GenForm(field, rollNo, class) ==
    [firstName |-> "f1", lastName |-> "l1", phone |-> "p2", email |-> "e2",
     class |-> class, field |-> field, rollNo |-> rollNo]

\* forms that vary the field, the class and the roll number in turn
GenBodies ==
    {GenForm(f, <<"A", "-", "1", "2", "3">>, "Class 11") : f \in GenFields}
    \cup {GenForm("", <<"0", "4", "5">>, c) : c \in GenClasses}
    \cup {GenForm("Computer Science", r, "Class 11") : r \in GenRollNos}

GenNext == \E p \in Procs, b \in GenBodies : Submit(p, NoSession, b, 1)

GenSpec == InitApp /\ [][GenNext]_vars

\* ------------------------------- repository failures during an approval
\* const { count } = await supabase...: on an error count is null, so
\* `count === 0` is false, no Student is created and the updated row is
\* returned
AppCountStudentsFails(p) ==
    /\ pc[p] = "a_count"
    /\ Respond(p, "setAppStatus", 200, "", req[p].id)
    /\ UNCHANGED <<backend, browserVars, clock, served, storeVars, acctVars, overlapped>>

\* createStudent: `if (error) throw new Error(error.message)`, which the
\* handler's catch answers with 500; the status write is not undone
AppCreateStudentFails(p) ==
    /\ pc[p] = "a_insert"
    /\ Respond(p, "setAppStatus", 500, "insert failed", 0)
    /\ UNCHANGED <<backend, browserVars, clock, served, storeVars, acctVars, overlapped>>

AppFaultNext ==
    \/ AppNext
    \/ \E p \in Procs : AppCountStudentsFails(p)
    \/ \E p \in Procs : AppCreateStudentFails(p)

AppFaultSpec == InitApp /\ [][AppFaultNext]_vars

\* ------------------------- DELETE /api/library-card-applications/:id
DeleteLibraryCardApplicationCascades(p, sess, n) ==
    /\ AcceptApp(p)
    /\ LET code == RequireAdmin(sess)
           gone(st) == /\ AppId(n) \in DOMAIN applications
                       /\ st.cardId = applications[AppId(n)].cardNumber
       IN IF code # 200
          THEN /\ res' = Response("deleteApplication", code, AdminError(code), 0)
               /\ UNCHANGED <<applications, students>>
          ELSE /\ applications' =
                     [a \in DOMAIN applications \ {AppId(n)} |-> applications[a]]
               /\ students' = SelectSeq(students, LAMBDA st : ~gone(st))
               /\ res' = Response("deleteApplication", 200, "", n)
    /\ UNCHANGED <<backend, browserVars, clock, storeVars, users, profiles, nextAppId,
                   pc, req, overlapped>>

DeleteLibraryCardApplication(p, sess, n) ==
    /\ AcceptApp(p)
    /\ LET code == RequireAdmin(sess)
       IN IF code # 200
          THEN /\ res' = Response("deleteApplication", code, AdminError(code), 0)
               /\ UNCHANGED applications
          ELSE /\ applications' =
                     [a \in DOMAIN applications \ {AppId(n)} |-> applications[a]]
               /\ res' = Response("deleteApplication", 200, "", n)
    /\ UNCHANGED <<backend, browserVars, clock, storeVars, users, profiles, students, nextAppId,
                   pc, req, overlapped>>

\* ------------------------------- circulation and applications together
\* The server with the seeded card holder, admin requests sent by the admin
\* and borrow requests by the card holder.
FrameBody == GenForm("Commerce", <<"9">>, "Class 12")

\* circulation and application requests share the application budget
FrameAccepts == served < MaxAppRequests

FrameNext ==
    \/ \E p \in Procs : FrameAccepts /\ CreateBook(p, AdminSession, MaxCopies)
    \/ \E p \in Procs, b \in BookIds :
            FrameAccepts /\ BorrowStart(p, CardSession, b, Title)
    \/ \E p \in Procs : BorrowGetBook(p)
    \/ \E p \in Procs : BorrowGetCard(p)
    \/ \E p \in Procs : BorrowCreate(p)
    \/ \E p \in Procs : BorrowUpdateBook(p)
    \/ \E p \in Procs, id \in BorrowIds : FrameAccepts /\ ReturnStart(p, AdminSession, id)
    \/ \E p \in Procs : ReturnGetBorrows(p)
    \/ \E p \in Procs : ReturnUpdateStatus(p)
    \/ \E p \in Procs : ReturnGetBook(p)
    \/ \E p \in Procs : ReturnUpdateBook(p)
    \/ \E p \in Procs, id \in BorrowIds, st \in StatusInputs, d \in DateInputs :
            FrameAccepts /\ SetBorrowStatus(p, AdminSession, id, st, d)
    \/ \E p \in Procs, id \in BorrowIds : FrameAccepts /\ DeleteBookBorrow(p, AdminSession, id)
    \/ \E p \in Procs : Submit(p, NoSession, FrameBody, 1)
    \/ \E p \in Procs, n \in AppNumbers, st \in {"approved", "rejected"} :
            AppStatusStart(p, AdminSession, n, st)
    \/ \E p \in Procs : AppUpdateStatus(p)
    \/ \E p \in Procs : AppCountStudents(p)
    \/ \E p \in Procs : AppCreateStudent(p)
    \/ \E p \in Procs, n \in AppNumbers :
            DeleteLibraryCardApplication(p, AdminSession, n)

FrameSpec == Init /\ [][FrameNext]_vars

\* ------------------------------------------------------ PUT /api/profile
ProfileBodies == {[fullName |-> "n2"], [phone |-> "p9"]}

\* updateProfile: { ...profile, ...partial } / update(toSnake(profile)); an
\* unknown userId yields undefined, which the handler sends as it is
UpdateProfile(p, sess, body) ==
    /\ AcceptApp(p)
    /\ LET uid == sess.userId
           known == Len(uid) = 1 /\ uid[1] \in DOMAIN profiles
       IN IF uid = <<>>
          THEN /\ res' = Response("updateProfile", 401, "Not authenticated", 0)
               /\ UNCHANGED profiles
          ELSE /\ profiles' = IF known
                              THEN [profiles EXCEPT ![uid[1]] = body @@ @]
                              ELSE profiles
               /\ res' = Response("updateProfile", 200, "", IF known THEN 1 ELSE 0)
    /\ UNCHANGED <<backend, browserVars, clock, storeVars, users, applications, students,
                   nextAppId, pc, req, overlapped>>

\* -------------------------------------- loans and the borrower's records
\* Borrows by the card holder and the registered user, returns and status
\* changes of loans, and changes of the borrower's profile and application.
SnapshotNext ==
    \/ \E p \in Procs : FrameAccepts /\ CreateBook(p, AdminSession, MaxCopies)
    \/ \E p \in Procs, s \in {CardSession, UserSession}, b \in BookIds :
            FrameAccepts /\ BorrowStart(p, s, b, Title)
    \/ \E p \in Procs : BorrowGetBook(p)
    \/ \E p \in Procs : BorrowGetCard(p)
    \/ \E p \in Procs : BorrowGetUser(p)
    \/ \E p \in Procs : BorrowGetProfile(p)
    \/ \E p \in Procs : BorrowCreate(p)
    \/ \E p \in Procs : BorrowUpdateBook(p)
    \/ \E p \in Procs, id \in BorrowIds : FrameAccepts /\ ReturnStart(p, AdminSession, id)
    \/ \E p \in Procs : ReturnGetBorrows(p)
    \/ \E p \in Procs : ReturnUpdateStatus(p)
    \/ \E p \in Procs : ReturnGetBook(p)
    \/ \E p \in Procs : ReturnUpdateBook(p)
    \/ \E p \in Procs, id \in BorrowIds, st \in StatusInputs, d \in DateInputs :
            FrameAccepts /\ SetBorrowStatus(p, AdminSession, id, st, d)
    \/ \E p \in Procs, b \in ProfileBodies : UpdateProfile(p, UserSession, b)
    \/ \E p \in Procs, n \in AppNumbers : AppStatusStart(p, AdminSession, n, "rejected")
    \/ \E p \in Procs : AppUpdateStatus(p)
    \/ \E p \in Procs, n \in AppNumbers :
            DeleteLibraryCardApplication(p, AdminSession, n)

SnapshotSpec == Init /\ [][SnapshotNext]_vars

\* ================================================= sessions and AuthProvider
ADMIN_SECRET_KEY == "GCMN-ADMIN-ONLY"
NoCardId == <<>>

\* req.body of POST /api/auth/login as AuthProvider.login builds it ("" and
\* <<>>: the key is left out): the admin, the seeded user with the right and
\* with a wrong password, the seeded card, the registered user
LoginBodies ==
    {[email |-> ADMIN_EMAIL, password |-> "pw", secretKey |-> ADMIN_SECRET_KEY,
      libraryCardId |-> NoCardId],
     [email |-> "e1", password |-> "pw", secretKey |-> "", libraryCardId |-> NoCardId],
     [email |-> "e1", password |-> "bad", secretKey |-> "", libraryCardId |-> NoCardId],
     [email |-> "e3", password |-> "pw", secretKey |-> "", libraryCardId |-> NoCardId],
     [email |-> "", password |-> "pw", secretKey |-> "",
      libraryCardId |-> <<"CS", "-", "1", "-", "11">>]}

\* req.body of POST /api/auth/register: a new account, a taken email, a form
\* without a name
RegisterBodies ==
    {[email |-> "e3", password |-> "pw", fullName |-> "n3", phone |-> "p3"],
     [email |-> "e1", password |-> "pw", fullName |-> "n3", phone |-> "p3"],
     [email |-> "e3", password |-> "pw", fullName |-> "", phone |-> "p3"]}

\* storage.getUserByEmail(email)
GetUserByEmail(email) == {u \in DOMAIN users : users[u].email = email}

\* the id createUser gives the account
NewUserId == "u2"

\* the admin branch of the login handler succeeds
AdminLoginValid(body) ==
    /\ body.secretKey # ""
    /\ body.secretKey = ADMIN_SECRET_KEY
    /\ \E u \in GetUserByEmail(ADMIN_EMAIL) :
          BcryptCompare(body.password, users[u].password) /\ body.email = ADMIN_EMAIL

\* POST /api/auth/login: <<status code, error, req.session after the handler>>
LoginAnswer(body) ==
    IF AdminLoginValid(body)
    THEN LET u == CHOOSE a \in GetUserByEmail(ADMIN_EMAIL) : TRUE
         IN <<200, "", [session EXCEPT !.userId = <<u>>, !.isAdmin = TRUE]>>
    ELSE IF body.libraryCardId # NoCardId
    THEN LET answer == CardLoginAnswer(body.libraryCardId, body.password)
         IN <<answer[1], answer[2],
              IF answer[1] = 200 THEN CardLoginSession(answer[3]) ELSE session>>
    ELSE IF GetUserByEmail(body.email) = {}
    THEN <<401, "Invalid credentials", session>>
    ELSE LET u == CHOOSE a \in GetUserByEmail(body.email) : TRUE
         IN IF ~BcryptCompare(body.password, users[u].password)
            THEN <<401, "Invalid credentials", session>>
            ELSE <<200, "", [session EXCEPT !.userId = <<u>>,
                                            !.isAdmin = users[u].isAdmin]>>

\* POST /api/auth/register: <<status code, error>>
RegisterAnswer(body) ==
    IF body.email = "" \/ body.password = "" \/ body.fullName = ""
    THEN <<400, "Missing required fields">>
    ELSE IF GetUserByEmail(body.email) # {}
    THEN <<400, "Email already registered">>
    ELSE <<200, "">>

\* GET /api/auth/me: ok, data.user.id, data.profile present, data.isAdmin,
\* data.isLibraryCard
MeAnswer ==
    LET cardId == StripCardPrefix(session.userId)
        uid == session.userId
        refused == [ok |-> FALSE, user |-> NoUser, profile |-> FALSE, isAdmin |-> FALSE,
                    isLibraryCard |-> FALSE]
    IN IF session.userId = <<>> THEN refused
       ELSE IF session.isLibraryCard
       THEN IF Len(cardId) = 1 /\ cardId[1] \in DOMAIN applications
            THEN [ok |-> TRUE, user |-> cardId[1], profile |-> FALSE, isAdmin |-> FALSE,
                  isLibraryCard |-> TRUE]
            ELSE refused
       ELSE IF Len(uid) = 1 /\ uid[1] \in DOMAIN users
       THEN [ok |-> TRUE, user |-> uid[1], profile |-> uid[1] \in DOMAIN profiles,
             isAdmin |-> users[uid[1]].isAdmin, isLibraryCard |-> FALSE]
       ELSE refused

\* AuthProvider.login: the POST, and on a response with data.user the await
\* of fetchCurrentUser
Login(p, body) ==
    /\ auth.call = "none"
    /\ AcceptApp(p)
    /\ LET answer == LoginAnswer(body)
       IN /\ res' = Response("login", answer[1], answer[2], 0)
          /\ session' = answer[3]
          /\ auth' = IF answer[1] = 200 THEN [auth EXCEPT !.call = "login"] ELSE auth
    /\ UNCHANGED <<backend, clock, storeVars, acctVars, pc, req, overlapped>>

\* AuthProvider.register: the POST (createUser, createProfile, the session
\* keys), and on res.ok the await of fetchCurrentUser
Register(p, body) ==
    /\ auth.call = "none"
    /\ AcceptApp(p)
    /\ LET answer == RegisterAnswer(body)
       IN /\ res' = Response("register", answer[1], answer[2], 0)
          /\ IF answer[1] = 200
             THEN /\ users' = [u \in DOMAIN users \cup {NewUserId} |->
                                 IF u = NewUserId
                                 THEN [email |-> body.email, isAdmin |-> FALSE,
                                       password |-> BcryptHash(body.password)]
                                 ELSE users[u]]
                  /\ profiles' = [u \in DOMAIN profiles \cup {NewUserId} |->
                                    IF u = NewUserId
                                    THEN [fullName |-> body.fullName, phone |-> body.phone]
                                    ELSE profiles[u]]
                  /\ session' = [session EXCEPT !.userId = <<NewUserId>>,
                                                !.isAdmin = FALSE]
                  /\ auth' = [auth EXCEPT !.call = "register"]
             ELSE UNCHANGED <<users, profiles, session, auth>>
    /\ UNCHANGED <<backend, clock, storeVars, applications, students, nextAppId,
                   pc, req, overlapped>>

\* the page is loaded: useState initial values, useEffect calls
\* fetchCurrentUser
Mount ==
    /\ auth.call = "none"
    /\ auth' = [SignedOut EXCEPT !.call = "mount"]
    /\ UNCHANGED <<backend, clock, served, storeVars, acctVars, pc, req, res,
                   overlapped, session>>

\* fetchCurrentUser: res.ok sets user, isAdmin, isLibraryCard, and the profile
\* `if (data.profile)`; otherwise everything is cleared
FetchCurrentUser ==
    /\ auth.call \in {"login", "register", "mount"}
    /\ LET data == MeAnswer
       IN /\ res' = Response("me", IF data.ok THEN 200 ELSE 401, "", 0)
          /\ auth' = IF data.ok
                     THEN [call |-> "none", user |-> data.user,
                           profile |-> IF data.profile THEN data.user ELSE auth.profile,
                           isAdmin |-> data.isAdmin,
                           isLibraryCard |-> data.isLibraryCard]
                     ELSE SignedOut
    /\ UNCHANGED <<backend, clock, served, storeVars, acctVars, pc, req,
                   overlapped, session>>

\* fetchCurrentUser, the fetch throws: the catch clears everything
FetchCurrentUserFails ==
    /\ auth.call \in {"login", "register", "mount"}
    /\ auth' = SignedOut
    /\ UNCHANGED <<backend, clock, served, storeVars, acctVars, pc, req, res,
                   overlapped, session>>

\* AuthProvider.logout: POST /api/auth/logout sets req.session = null, then
\* the four setters
Logout(p) ==
    /\ auth.call = "none"
    /\ AcceptApp(p)
    /\ session' = NoSession
    /\ res' = Response("logout", 200, "", 0)
    /\ auth' = SignedOut
    /\ UNCHANGED <<backend, clock, storeVars, acctVars, pc, req, overlapped>>

\* AuthProvider.logout, the fetch throws: the request does not reach the
\* server, the catch logs, the four setters run
LogoutFails(p) ==
    /\ auth.call = "none"
    /\ AcceptApp(p)
    /\ auth' = SignedOut
    /\ UNCHANGED <<backend, clock, storeVars, acctVars, pc, req, res, overlapped,
                   session>>

AuthNext ==
    \/ \E p \in Procs, b \in LoginBodies : Login(p, b)
    \/ \E p \in Procs, b \in RegisterBodies : Register(p, b)
    \/ Mount
    \/ FetchCurrentUser
    \/ FetchCurrentUserFails
    \/ \E p \in Procs : Logout(p)
    \/ \E p \in Procs : LogoutFails(p)

AuthSpec == Init /\ [][AuthNext]_vars

TypeOK ==
    /\ backend \in Backends
    /\ \A b \in DOMAIN books : books[b].totalCopies \in Int /\ books[b].availableCopies \in Int
    /\ DOMAIN bookBorrows \subseteq BorrowIds

\* =================================================================== claims
\* Request p leaves the await `label` in this step.
Leaves(p, label) == pc[p] = label /\ pc'[p] # label

\* C1: two concurrent borrow requests that both read availableCopies = 1 of
\* the same book never both create a BookBorrow: one of them must fail with
\* NoCopiesAvailable.
C1_LastCopyBorrowedOnce ==
    \A p, q \in Procs :
        ~ /\ p # q
          /\ pc[p] = "b_updateBook" /\ pc[q] = "b_updateBook"
          /\ req[p].bookId = req[q].bookId
          /\ req[p].avail = 1 /\ req[q].avail = 1

\* C2: availableCopies <= totalCopies for every book in every state reached
\* by borrow, returnCopy, setBorrowStatus and deleteBookBorrow requests.
C2_AvailableAtMostTotal ==
    \A b \in DOMAIN books : books[b].availableCopies <= books[b].totalCopies

\* C3: availableCopies >= 0 for every book in every reachable state, under
\* every interleaving of concurrent borrow and returnCopy requests.
C3_AvailableNonNegative ==
    \A b \in DOMAIN books : books[b].availableCopies >= 0

\* C3 witness: a borrow and a return of the same book are both about to write
\* its counter, the borrow taking the last copy.
C3_Witness ==
    \E p, q \in Procs :
        /\ pc[p] = "b_updateBook" /\ pc[q] = "r_updateBook"
        /\ req[p].bookId = req[q].bookId
        /\ req[p].avail = 1

\* C4: a borrow that no other operation on the same book overlapped answers
\* 200 with the book's availableCopies exactly one less than before the call,
\* and its createBookBorrow added exactly one loan, which is of that book and
\* borrower, has status borrowed and has no returnDate.
C4_BorrowEffect ==
    [][\A p \in Procs :
        /\ Leaves(p, "b_create") =>
              /\ DOMAIN bookBorrows' = DOMAIN bookBorrows \cup {nextBorrowId}
              /\ nextBorrowId \notin DOMAIN bookBorrows
              /\ \A id \in DOMAIN bookBorrows : bookBorrows'[id] = bookBorrows[id]
              /\ bookBorrows'[nextBorrowId].status = "borrowed"
              /\ bookBorrows'[nextBorrowId].returnDate = NoDate
        /\ (Leaves(p, "b_updateBook") /\ p \notin overlapped) =>
              LET b == req[p].bookId
                  id == req[p].id
              IN /\ b \in DOMAIN books
                 /\ books[b].availableCopies = req[p].avail
                 /\ books'[b].availableCopies = books[b].availableCopies - 1
                 /\ \A o \in DOMAIN books \ {b} : books'[o] = books[o]
                 /\ res' = Response("borrow", 200, "", id)
                 /\ id \in DOMAIN bookBorrows'
                 /\ bookBorrows'[id].bookId = b
                 /\ bookBorrows'[id].userId = req[p].sess.userId
                 /\ bookBorrows'[id].status = "borrowed"
                 /\ bookBorrows'[id].returnDate = NoDate]_vars

\* C4 witness: a borrow answered 200 and left its book one copy short, the
\* loan it names being borrowed by a card holder.
C4_Witness ==
    /\ res.op = "borrow" /\ res.status = 200
    /\ res.id \in DOMAIN bookBorrows
    /\ bookBorrows[res.id].status = "borrowed"
    /\ bookBorrows[res.id].userId = CardSession.userId
    /\ \E b \in DOMAIN books : books[b].availableCopies = books[b].totalCopies - 1
    /\ overlapped = {}

\* C5: a borrow that finds the book with availableCopies = 0 answers
\* "No copies available", creates no BookBorrow and leaves the counter at 0.
C5_NoCopiesRejected ==
    [][\A p \in Procs :
        (/\ Leaves(p, "b_getBook")
         /\ req[p].bookId \in DOMAIN books
         /\ books[req[p].bookId].availableCopies = 0) =>
            /\ res' = Response("borrow", 400, "No copies available for borrowing", 0)
            /\ pc'[p] = "idle"
            /\ bookBorrows' = bookBorrows
            /\ books' = books]_vars

\* C5 witness: the last response is the refusal and the book has no copy left.
C5_Witness ==
    /\ res = Response("borrow", 400, "No copies available for borrowing", 0)
    /\ \E b \in DOMAIN books : books[b].availableCopies = 0

\* C6: a returnCopy that found its loan borrowed sets the loan's status to
\* returned with a returnDate, and its counter write leaves the book's
\* availableCopies exactly 1 above what it was.
C6_ReturnEffect ==
    [][\A p \in Procs :
        /\ (Leaves(p, "r_updateStatus") /\ req[p].id \in DOMAIN bookBorrows) =>
              /\ bookBorrows'[req[p].id].status = "returned"
              /\ bookBorrows'[req[p].id].returnDate # NoDate
        /\ Leaves(p, "r_updateBook") =>
              /\ req[p].bookId \in DOMAIN books
              /\ books'[req[p].bookId].availableCopies =
                    books[req[p].bookId].availableCopies + 1]_vars

\* C7: a returnCopy that finds its loan already returned answers
\* "Book already returned" and changes neither the books nor the loans.
C7_AlreadyReturnedRejected ==
    [][\A p \in Procs :
        (/\ Leaves(p, "r_getBorrows")
         /\ req[p].id \in DOMAIN bookBorrows
         /\ bookBorrows[req[p].id].status = "returned") =>
            /\ res' = Response("return", 400, "Book already returned", req[p].id)
            /\ pc'[p] = "idle"
            /\ books' = books
            /\ bookBorrows' = bookBorrows]_vars

\* C7 witness: the last response is the refusal of a second return.
C7_Witness ==
    /\ res.op = "return" /\ res.status = 400 /\ res.error = "Book already returned"
    /\ res.id \in DOMAIN bookBorrows
    /\ bookBorrows[res.id].status = "returned"
    /\ bookBorrows[res.id].returnDate # NoDate

\* C8: of two concurrent returnCopy requests for the same loan at most one
\* gets past the already-returned guard, so the counter is raised once.
C8_NoDoubleReturn ==
    \A p, q \in Procs :
        ~ /\ p # q
          /\ req[p].op = "return" /\ req[q].op = "return"
          /\ req[p].id = req[q].id
          /\ pc[p] \in {"r_updateStatus", "r_getBook", "r_updateBook"}
          /\ pc[q] \in {"r_updateStatus", "r_getBook", "r_updateBook"}

\* C9: once a loan's status is returned, no operation makes it borrowed again.
C9_ReturnedStaysReturned ==
    [][\A id \in DOMAIN bookBorrows :
        (bookBorrows[id].status = "returned" /\ id \in DOMAIN bookBorrows') =>
            bookBorrows'[id].status # "borrowed"]_vars

\* C10: every BookBorrow has a returnDate if and only if its status is returned.
C10_ReturnDateIffReturned ==
    \A id \in DOMAIN bookBorrows :
        (bookBorrows[id].returnDate # NoDate) <=> (bookBorrows[id].status = "returned")

BorrowedCount(b) ==
    Cardinality({id \in DOMAIN bookBorrows :
                    bookBorrows[id].bookId = b /\ bookBorrows[id].status = "borrowed"})

Quiescent == \A p \in Procs : pc[p] = "idle"

\* C11: a borrow that answers 200 has had its counter write applied: the book
\* exists and its stored availableCopies is the decremented value.
C11_SuccessImpliesDecrement ==
    [][\A p \in Procs :
        (Leaves(p, "b_updateBook") /\ res'.status = 200) =>
            /\ req[p].bookId \in DOMAIN books'
            /\ books'[req[p].bookId].availableCopies = BorrowCopies(req[p].avail)]_vars

\* C12: whenever no request is in flight, every book has
\* availableCopies + (its loans with status borrowed) = totalCopies.
C12_CounterMatchesLoans ==
    Quiescent =>
        \A b \in DOMAIN books :
            books[b].availableCopies + BorrowedCount(b) = books[b].totalCopies

\* C13: with only borrow and return requests, served one after the other, on
\* books created with N copies: every completed borrow leaves the counter at
\* N minus the loans out, a borrow is refused with "No copies available"
\* exactly when N loans are out, and a completed return leaves the counter one
\* higher with the loan returned.
C13_BorrowReturnScenario ==
    [][\A p \in Procs :
        LET b == req[p].bookId
        IN /\ Leaves(p, "b_updateBook") =>
                /\ res' = Response("borrow", 200, "", req[p].id)
                /\ books'[b].availableCopies = books[b].availableCopies - 1
                /\ books'[b].availableCopies =
                      books'[b].totalCopies - BorrowedCount(b)
                /\ bookBorrows'[req[p].id].status = "borrowed"
           /\ (Leaves(p, "b_getBook") /\ b \in DOMAIN books) =>
                ((/\ pc'[p] = "idle"
                  /\ res' = Response("borrow", 400, "No copies available for borrowing", 0))
                    <=> BorrowedCount(b) = books[b].totalCopies)
           /\ Leaves(p, "r_updateBook") =>
                /\ books'[b].availableCopies = books[b].availableCopies + 1
                /\ books'[b].availableCopies =
                      books'[b].totalCopies - BorrowedCount(b)
                /\ bookBorrows'[req[p].id].status = "returned"]_vars

\* C13 witness: a book of two copies after two borrows, a refused third
\* request and the return of the first loan.
C13_Witness ==
    /\ res = Response("return", 200, "", 1)
    /\ served = 4
    /\ DOMAIN books = {1} /\ books[1].totalCopies = 2 /\ books[1].availableCopies = 1
    /\ DOMAIN bookBorrows = {1, 2}
    /\ bookBorrows[1].status = "returned" /\ bookBorrows[2].status = "borrowed"

\* Request p answers a PATCH /api/library-card-applications/:id/status in
\* this step.
AppStatusAnswered(p) ==
    /\ pc[p] \in {"a_update", "a_count", "a_insert"}
    /\ pc'[p] = "idle"

\* C14: when an approval (setStatus(id, approved)) of an existing application
\* has been answered, exactly one Student has the application's cardNumber as
\* its cardId (one after the first approval, still one after a second).
C14_ApprovalProvisionsOneStudent ==
    [][\A p \in Procs :
        (AppStatusAnswered(p) /\ req[p].status = "approved"
            /\ AppId(req[p].id) \in DOMAIN applications') =>
            Cardinality({i \in 1..Len(students') :
                students'[i].cardId = applications'[AppId(req[p].id)].cardNumber}) = 1]_vars

\* C15: no two Student records have the same cardId, in any reachable state.
C15_OneStudentPerCard ==
    \A i, j \in 1..Len(students) :
        students[i].cardId = students[j].cardId => i = j

\* C16: a submit adds exactly one application, with status pending, whatever
\* keys the body carries, and changes no other application, no Student and no
\* other record.
C16_SubmitCreatesPending ==
    [][nextAppId' # nextAppId =>
        /\ AppId(nextAppId) \notin DOMAIN applications
        /\ DOMAIN applications' = DOMAIN applications \cup {AppId(nextAppId)}
        /\ applications'[AppId(nextAppId)].status = "pending"
        /\ \A a \in DOMAIN applications : applications'[a] = applications[a]
        /\ students' = students
        /\ UNCHANGED <<storeVars, users, profiles>>]_vars

\* C16 witness: an application submitted with userId, status, cardNumber and
\* studentId keys in its body is stored pending with the generated card number.
C16_Witness ==
    /\ res = Response("submit", 200, "", 1)
    /\ applications[AppId(1)].userId = <<"adm">>
    /\ applications[AppId(1)].status = "pending"
    /\ applications[AppId(1)].cardNumber = <<"XX", "-", "7", "-", "XX">>
    /\ applications[AppId(1)].studentId = GenerateStudentId(1)

\* C17: once an application's status is approved or rejected, no step changes
\* it.
C17_TerminalStatusFinal ==
    [][\A a \in DOMAIN applications :
        applications[a].status \in {"approved", "rejected"} =>
            /\ a \in DOMAIN applications'
            /\ applications'[a].status = applications[a].status]_vars

\* C18: the status write of setStatus leaves every application's cardNumber,
\* studentId, issueDate and validThrough as they were.
C18_StatusKeepsIdentifiers ==
    [][\A p \in Procs :
        Leaves(p, "a_update") =>
            \A a \in DOMAIN applications :
                /\ a \in DOMAIN applications'
                /\ applications'[a].cardNumber = applications[a].cardNumber
                /\ applications'[a].studentId = applications[a].studentId
                /\ applications'[a].issueDate = applications[a].issueDate
                /\ applications'[a].validThrough = applications[a].validThrough]_vars

\* C18 witness: an application whose status has been set to rejected, with
\* its generated identifiers in place.
C18_Witness ==
    /\ res = Response("setAppStatus", 200, "", 1)
    /\ applications[AppId(1)].status = "rejected"
    /\ applications[AppId(1)].cardNumber = <<"XX", "-", "7", "-", "XX">>
    /\ applications[AppId(1)].studentId = GenerateStudentId(2)
    /\ applications[AppId(1)].validThrough = applications[AppId(1)].issueDate + CardValidDays

\* C19: no two distinct applications have the same cardNumber.
C19_CardNumbersUnique ==
    \A a, b \in DOMAIN applications :
        applications[a].cardNumber = applications[b].cardNumber => a = b

\* The application a card login resolves to (none: the empty set).
LoginTarget(libraryCardId) ==
    {applications[AppId(n)] : n \in GetLibraryCardByCardNumber(libraryCardId)}

\* C20 as stated: a card login with a secret that resolves to a pending
\* application is refused as not approved (pending), whatever the secret.
C20_PendingAlwaysNotApproved ==
    [][\A p \in Procs, c \in CardIdInputs, s \in SecretInputs :
        (res'.op = "cardLogin" /\ CardLogin(p, c, s)) =>
            \A app \in LoginTarget(c) :
                (app.status = "pending" /\ s # "") =>
                    res' = Response("cardLogin", 401, "Wait for approval by library", 0)]_vars

\* C20 amended: a card login that resolves to an application with a stored
\* password is refused as not approved (pending) when the application is
\* pending and the secret is correct, succeeds when it is approved and the
\* secret is correct, and is refused as an invalid credential when the secret
\* is supplied and wrong, whether the application is approved or pending.
C20_CardLoginOutcomes ==
    [][\A p \in Procs, c \in CardIdInputs, s \in SecretInputs :
        (res'.op = "cardLogin" /\ CardLogin(p, c, s)) =>
            \A app \in LoginTarget(c) :
                app.password # <<>> =>
                    /\ (app.status = "pending" /\ app.password = BcryptHash(s)) =>
                          res' = Response("cardLogin", 401,
                                          "Wait for approval by library", 0)
                    /\ (app.status = "approved" /\ app.password = BcryptHash(s)) =>
                          (res'.op = "cardLogin" /\ res'.status = 200 /\ res'.id # 0)
                    /\ (app.status \in {"approved", "pending"} /\ s # ""
                            /\ app.password # BcryptHash(s)) =>
                          res' = Response("cardLogin", 401, "Write correct details", 0)]_vars

\* C20 witness: a card login has succeeded on an approved application.
C20_Witness ==
    /\ res = Response("cardLogin", 200, "", 1)
    /\ applications[AppId(1)].status = "approved"
    /\ applications[AppId(1)].password = BcryptHash("pw")

\* C21: a card login is answered with success only when the application it
\* resolves to has the stored status "approved", exactly, and the supplied
\* secret matches the stored hash.
C21_SessionOnlyWhenApproved ==
    [][\A p \in Procs, c \in CardIdInputs, s \in SecretInputs :
        (res'.op = "cardLogin" /\ res'.status = 200 /\ CardLogin(p, c, s)) =>
            /\ LoginTarget(c) # {}
            /\ \A app \in LoginTarget(c) :
                    app.status = "approved" /\ app.password = BcryptHash(s)]_vars

CaseInsensitiveMatches(c) ==
    {n \in 1..(nextAppId - 1) :
        /\ AppId(n) \in DOMAIN applications
        /\ Lower(applications[AppId(n)].cardNumber) = Lower(c)}

\* C23: the lookup by card number returns one of the applications whose
\* stored cardNumber equals the argument ignoring letter case whenever there
\* is one (also when there are several), and nothing otherwise.
C23_LookupIgnoresCase ==
    \A c \in CardIdInputs :
        /\ GetLibraryCardByCardNumber(c) \subseteq CaseInsensitiveMatches(c)
        /\ CaseInsensitiveMatches(c) # {} => GetLibraryCardByCardNumber(c) # {}

\* The tables and the examples of the card number format.
FieldCodeTable ==
    {<<"Computer Science", "CS">>, <<"Pre-Medical", "PM">>, <<"Pre-Engineering", "PE">>,
     <<"Humanities", "HU">>, <<"Commerce", "CO">>}
ClassCodeTable ==
    {<<"Class 11", "11">>, <<"Class 12", "12">>, <<"ADS I", "AI">>, <<"ADS II", "AII">>,
     <<"BSc Part 1", "BI">>, <<"BSc Part 2", "BII">>}
CleanedRollNoTable ==
    {<<<<"A", "-", "1", "2", "3">>, <<"1", "2", "3">>>>,
     <<<<"0", "4", "5">>, <<"0", "4", "5">>>>,
     <<<<"b", "7">>, <<"7">>>>,
     <<<<"-", "5">>, <<"-", "5">>>>,
     <<<<"A", "B", "-", "1">>, <<"B", "-", "1">>>>}
CodeIn(table, key) ==
    IF \E e \in table : e[1] = key
    THEN (CHOOSE e \in table : e[1] = key)[2]
    ELSE "XX"

\* C24: the card number of every stored application is
\* fieldCode "-" cleanedRollNo "-" classCode, with the codes of the two fixed
\* tables (XX for a value not in them or absent) and the roll number without
\* one leading letter and optional hyphen; ("Computer Science", "A-123",
\* "Class 11") gives CS-123-11 and (absent, "045", "Unknown Track") gives
\* XX-045-XX; applications with the same three inputs have the same number.
C24_CardNumberFormat ==
    /\ \A a \in DOMAIN applications :
          LET app == applications[a]
              cleaned == (CHOOSE e \in CleanedRollNoTable : e[1] = app.rollNo)[2]
          IN app.cardNumber =
                <<CodeIn(FieldCodeTable, app.field), "-">> \o cleaned
                    \o <<"-", CodeIn(ClassCodeTable, app.class)>>
    /\ \A a \in DOMAIN applications :
          LET app == applications[a]
          IN /\ (app.field = "Computer Science" /\ app.rollNo = <<"A", "-", "1", "2", "3">>
                    /\ app.class = "Class 11") =>
                  app.cardNumber = <<"CS", "-", "1", "2", "3", "-", "11">>
             /\ (app.field = "" /\ app.rollNo = <<"0", "4", "5">>
                    /\ app.class = "Unknown Track") =>
                  app.cardNumber = <<"XX", "-", "0", "4", "5", "-", "XX">>
    /\ \A a, b \in DOMAIN applications :
          (/\ applications[a].field = applications[b].field
           /\ applications[a].rollNo = applications[b].rollNo
           /\ applications[a].class = applications[b].class) =>
              applications[a].cardNumber = applications[b].cardNumber

\* C24 witness: the two examples have been submitted, one after the other.
C24_Witness ==
    /\ DOMAIN applications = {AppId(1), AppId(2)}
    /\ applications[AppId(1)].field = "Computer Science"
    /\ applications[AppId(1)].rollNo = <<"A", "-", "1", "2", "3">>
    /\ applications[AppId(1)].class = "Class 11"
    /\ applications[AppId(1)].cardNumber = <<"CS", "-", "1", "2", "3", "-", "11">>
    /\ applications[AppId(2)].field = ""
    /\ applications[AppId(2)].rollNo = <<"0", "4", "5">>
    /\ applications[AppId(2)].class = "Unknown Track"
    /\ applications[AppId(2)].cardNumber = <<"XX", "-", "0", "4", "5", "-", "XX">>

\* C25: a Book's availableCopies is changed only by the counter write of a
\* borrow or of a returnCopy: every other step (setBorrowStatus with every
\* status and with or without a return date, deleteBookBorrow, submit,
\* setStatus and delete of an application) keeps every Book, with its
\* availableCopies and totalCopies; no step changes totalCopies.
C25_CopiesChangedOnlyByBorrowAndReturn ==
    [][\A b \in DOMAIN books :
          /\ b \in DOMAIN books'
          /\ books'[b].totalCopies = books[b].totalCopies
          /\ \/ books'[b].availableCopies = books[b].availableCopies
             \/ \E p \in Procs :
                    Leaves(p, "b_updateBook") \/ Leaves(p, "r_updateBook")]_vars

\* C25 witness: a loan was deleted while its copy was out, and the book's
\* counter still shows the copy as out.
C25_Witness ==
    /\ res = Response("deleteBorrow", 200, "", 1)
    /\ bookBorrows = <<>>
    /\ nextBorrowId = 2
    /\ 1 \in DOMAIN books
    /\ books[1].availableCopies = books[1].totalCopies - 1

\* C26: no step of a setStatus(applicationId, rejected) changes the Students:
\* the status write answers the request at once, changes nothing of any
\* application but the status of the one named, and leaves the books, the
\* loans, the users and the profiles as they were.
C26_RejectionKeepsStudents ==
    [][\A p \in Procs :
        (/\ pc[p] \in {"a_update", "a_count", "a_insert"}
         /\ req[p].status = "rejected"
         /\ pc'[p] # pc[p]) =>
            /\ students' = students
            /\ pc[p] = "a_update" /\ pc'[p] = "idle"
            /\ DOMAIN applications' = DOMAIN applications
            /\ \A a \in DOMAIN applications :
                  /\ [applications'[a] EXCEPT !.status = applications[a].status]
                        = applications[a]
                  /\ a # AppId(req[p].id) => applications'[a] = applications[a]
            /\ UNCHANGED <<storeVars, users, profiles>>]_vars

\* C26 witness: an approved application with its Student has been rejected,
\* and the Student is still there.
C26_Witness ==
    /\ res = Response("setAppStatus", 200, "", 1)
    /\ applications[AppId(1)].status = "rejected"
    /\ Len(students) = 1
    /\ students[1].cardId = applications[AppId(1)].cardNumber

\* C27: the Student an approval provisions has the application's cardNumber
\* as cardId, its first and last name joined by a space as name, its class,
\* field and rollNo, and as userId the application's userId when it has one,
\* "card-" followed by the application's id otherwise.
C27_ProvisionedStudentFields ==
    [][\A p \in Procs :
        Leaves(p, "a_insert") =>
            /\ Len(students') = Len(students) + 1
            /\ \A i \in 1..Len(students) : students'[i] = students[i]
            /\ AppId(req[p].id) \in DOMAIN applications =>
                  LET app == applications[AppId(req[p].id)]
                      new == students'[Len(students')]
                  IN /\ new.cardId = app.cardNumber
                     /\ Len(new.name) = 3
                     /\ new.name[1] = app.firstName
                     /\ new.name[2] = " "
                     /\ new.name[3] = app.lastName
                     /\ new.class = app.class
                     /\ new.field = app.field
                     /\ new.rollNo = app.rollNo
                     /\ app.userId # <<>> => new.userId = app.userId
                     /\ app.userId = <<>> =>
                           new.userId = <<"card-", AppId(req[p].id)>>]_vars

\* C27 witness: an application submitted by a signed-in user has been
\* approved and its Student carries the user's id, not the "card-" form.
C27_Witness ==
    /\ res = Response("setAppStatus", 200, "", 1)
    /\ applications[AppId(1)].userId = UserSession.userId
    /\ applications[AppId(1)].userId # <<>>
    /\ Len(students) = 1
    /\ students[1].userId = applications[AppId(1)].userId
    /\ students[1].cardId = applications[AppId(1)].cardNumber

\* C28: the failures of the taxonomy can be told from each other and from
\* success by the answer: a card login that finds no application is answered
\* differently from one whose secret does not match the stored hash, and a
\* setStatus naming an application that does not exist is not answered as a
\* success.
C28_ErrorsDistinguishable ==
    /\ \A c1, c2 \in CardIdInputs, s1, s2 \in SecretInputs \ {""} :
          (/\ LoginTarget(c1) = {}
           /\ LoginTarget(c2) # {}
           /\ \A app \in LoginTarget(c2) :
                 app.password # <<>> /\ app.password # BcryptHash(s2)) =>
              CardLoginAnswer(c1, s1) # CardLoginAnswer(c2, s2)
    /\ (res.op = "setAppStatus" /\ res.id = 0) => res.status # 200

\* C29: a repository failure during a borrow is answered as a failure: a
\* borrow is answered "Book not found" only when the book does not exist (a
\* failed read of an existing book is not), and a borrow is answered 200 only
\* when the counter write was applied.
C29_FailuresPropagate ==
    [][\A p \in Procs :
        /\ (Leaves(p, "b_getBook") /\ pc'[p] = "idle"
                /\ res' = Response("borrow", 404, "Book not found", 0)) =>
              req[p].bookId \notin DOMAIN books
        /\ (Leaves(p, "b_updateBook") /\ pc'[p] = "idle" /\ res'.status = 200) =>
              \E b \in DOMAIN books' :
                  /\ b = req[p].bookId
                  /\ books'[b].availableCopies = BorrowCopies(req[p].avail)]_vars

\* C30: a submit whose form lacks a required field (the first name, the roll
\* number) is answered with a validation error and stores no application.
C30_IncompleteSubmitRejected ==
    [][\A p \in Procs, s \in {NoSession, UserSession}, b \in IncompleteBodies,
         n \in 1..MaxDraws :
        (res'.op = "submit" /\ Submit(p, s, b, n)) =>
            /\ res'.status = 400
            /\ applications' = applications
            /\ UNCHANGED <<storeVars, students>>]_vars

\* C31: every loan has dueDate = borrowDate + 14 days, with the borrowDate
\* stored on the loan, also when the clock advances between the handler's
\* computation of the due date and the storage's stamp of the borrow date.
C31_DueDateFromBorrowDate ==
    \A id \in DOMAIN bookBorrows :
        bookBorrows[id].dueDate = bookBorrows[id].borrowDate + LoanDays

\* the fields of a loan that are taken at borrow time
SnapshotOf(loan) ==
    <<loan.bookId, loan.bookTitle, loan.borrowerName, loan.borrowerPhone,
      loan.borrowerEmail, loan.userId, loan.borrowDate, loan.dueDate>>

\* C32: no step changes the snapshot of a loan that stays stored: a return, a
\* status change of the loan, a change of the borrower's profile and a status
\* change or delete of the borrower's card application leave its bookId,
\* bookTitle, borrowerName, borrowerPhone, borrowerEmail, userId, borrowDate
\* and dueDate as they were.
C32_LoanSnapshotImmutable ==
    [][\A id \in DOMAIN bookBorrows :
          /\ id \in DOMAIN bookBorrows'
          /\ SnapshotOf(bookBorrows'[id]) = SnapshotOf(bookBorrows[id])]_vars

\* C32 witness: the registered user's loan has been returned after the user
\* changed the profile's name, and it still carries the name of borrow time.
C32_Witness ==
    /\ res = Response("return", 200, "", 1)
    /\ 1 \in DOMAIN bookBorrows
    /\ bookBorrows[1].status = "returned"
    /\ bookBorrows[1].userId = UserSession.userId
    /\ bookBorrows[1].borrowerName = <<"n1">>
    /\ profiles["u1"].fullName = "n2"

\* C33: the Students change only by the insert of an approval
\* (setStatus(approved)), which adds one Student whose cardId is the
\* cardNumber of the application approved; no step (setStatus with any value,
\* the delete of the application, borrow, return) changes or removes a
\* Student that exists.
C33_StudentsOnlyByApproval ==
    [][/\ Len(students') >= Len(students)
       /\ \A i \in 1..Len(students) : students'[i] = students[i]
       /\ students' # students =>
             \E p \in Procs :
                /\ Leaves(p, "a_insert")
                /\ req[p].status = "approved"
                /\ Len(students') = Len(students) + 1
                /\ \A card \in req[p].card :
                      /\ students'[Len(students')].cardId = card.cardNumber
                      /\ AppId(req[p].id) \in DOMAIN applications =>
                            card.cardNumber = applications[AppId(req[p].id)].cardNumber]_vars

\* C33 witness: an application was submitted, approved and then deleted, and
\* its Student is still stored beside the seeded one.
C33_Witness ==
    /\ res = Response("deleteApplication", 200, "", 2)
    /\ AppId(2) \notin DOMAIN applications
    /\ nextAppId = 3
    /\ Len(students) = 2
    /\ students[2].cardId = <<"CO", "-", "9", "-", "12">>

\* C34: a borrow whose bookId resolves to no Book is answered 404 "Book not
\* found", creates no BookBorrow and changes no Book.
C34_UnknownBookNotFound ==
    [][\A p \in Procs :
        (Leaves(p, "b_getBook") /\ req[p].bookId \notin DOMAIN books) =>
            /\ res' = Response("borrow", 404, "Book not found", 0)
            /\ pc'[p] = "idle"
            /\ bookBorrows' = bookBorrows
            /\ nextBorrowId' = nextBorrowId
            /\ books' = books]_vars

\* C34 witness: a borrow of an unknown book has been refused while a book
\* with a free copy is stored and no loan exists.
C34_Witness ==
    /\ res = Response("borrow", 404, "Book not found", 0)
    /\ \E b \in DOMAIN books : books[b].availableCopies > 0
    /\ UnknownBookId \notin DOMAIN books
    /\ bookBorrows = <<>>

\* C35: with SupabaseStorage, when a setStatus(applicationId, approved) has
\* been answered, also after a repository failure in the student check or
\* insert, the application is not stored as approved without a Student for
\* its cardNumber; and an approval that is answered as a success has its
\* Student.
C35_NoApprovedWithoutStudent ==
    [][\A p \in Procs :
        (/\ backend = "supabase"
         /\ AppStatusAnswered(p)
         /\ req[p].status = "approved"
         /\ AppId(req[p].id) \in DOMAIN applications'
         /\ applications'[AppId(req[p].id)].status = "approved"
         /\ applications'[AppId(req[p].id)].cardNumber # <<>>) =>
            \E i \in 1..Len(students') :
                students'[i].cardId = applications'[AppId(req[p].id)].cardNumber]_vars

\* C36: with SupabaseStorage and no repository failure, whenever no request
\* is in flight every application with status approved and a cardNumber has
\* a Student whose cardId is that cardNumber.
C36_ApprovedHasStudent ==
    (backend = "supabase" /\ Quiescent) =>
        \A a \in DOMAIN applications :
            (applications[a].status = "approved" /\ applications[a].cardNumber # <<>>) =>
                \E i \in 1..Len(students) :
                    students[i].cardId = applications[a].cardNumber

\* C36 witness: on SupabaseStorage, with no request in flight, one of two
\* applications is approved and has its Student, the other is pending.
C36_Witness ==
    /\ backend = "supabase"
    /\ Quiescent
    /\ DOMAIN applications = {AppId(1), AppId(2)}
    /\ applications[AppId(1)].status = "pending"
    /\ applications[AppId(2)].status = "approved"
    /\ Len(students) = 1
    /\ students[1].cardId = applications[AppId(2)].cardNumber
    /\ students[1].cardId # applications[AppId(1)].cardNumber

\* What each storage holds after updateLibraryCardApplicationStatus(id, status)
\* on the stored state: the status of every application, and the cardIds of
\* the Students.
StatusesOf(apps) == [a \in DOMAIN apps |-> apps[a].status]
StudentCards == {students[i].cardId : i \in 1..Len(students)}
MemStudentCardsAfter(id, status) == StudentCards
SupabaseStudentCardsAfter(id, status) ==
    IF id \in DOMAIN applications /\ ProvisionsStudent(status)
          /\ applications[id].cardNumber # <<>>
    THEN StudentCards \cup {StudentOf(id, applications[id]).cardId}
    ELSE StudentCards
LoanStatesOf(loans) ==
    [b \in DOMAIN loans |-> <<loans[b].status, loans[b].returnDate>>]

\* C37: from the same stored state the two storages answer the same call the
\* same way: after updateLibraryCardApplicationStatus they hold the same
\* application statuses and the same Students (by cardId), after
\* updateBookBorrowStatus the same loan status and returnDate values, and
\* getLibraryCardByCardNumber finds an application on one exactly when it
\* does on the other.
C37_StoragesEquivalent ==
    /\ \A n \in AppInputs, st \in AppStatusInputs \ {NoStatus} :
          /\ StatusesOf(MemUpdateLibraryCardApplicationStatus(AppId(n), st))
                = StatusesOf(SupabaseUpdateLibraryCardApplicationStatus(AppId(n), st))
          /\ MemStudentCardsAfter(AppId(n), st) = SupabaseStudentCardsAfter(AppId(n), st)
    /\ \A id \in BorrowIds, st \in StatusInputs, d \in DateInputs :
          LoanStatesOf(MemUpdateBookBorrowStatus(id, st, d))
            = LoanStatesOf(SupabaseUpdateBookBorrowStatus(id, st, d))
    /\ \A c \in CardIdInputs :
          (MemCardByCardNumber(c) = {}) <=> (SupabaseCardByCardNumber(c) = {})

\* C39: a borrow through a library-card session creates a loan only while
\* the card's application is stored with status approved; after the
\* application has been rejected or deleted the session no longer borrows.
C39_CardBorrowNeedsApproved ==
    [][\A p \in Procs :
        (Leaves(p, "b_create") /\ req[p].sess.isLibraryCard
            /\ bookBorrows' # bookBorrows) =>
            LET cardId == StripCardPrefix(req[p].sess.userId)
            IN /\ Len(cardId) = 1
               /\ cardId[1] \in DOMAIN applications
               /\ applications[cardId[1]].status = "approved"]_vars

\* C38: in every session state, isLibraryCard is set exactly when the
\* userId has the form "card-<applicationId>".
C38_LibraryCardFlagMatchesUserId ==
    session.isLibraryCard <=>
        (Len(session.userId) = 2 /\ session.userId[1] = "card-")

\* C40: whenever no call of the AuthProvider is awaiting a response, a
\* non-null profile has the id of the current user; and after a logout,
\* also one whose request failed, user, profile, isAdmin and isLibraryCard
\* are cleared.
C40_ProfileOfCurrentUser ==
    /\ []((auth.call = "none" /\ auth.profile # NoUser) => auth.profile = auth.user)
    /\ [][\A p \in Procs : (Logout(p) \/ LogoutFails(p)) => auth' = SignedOut]_vars

====
